---- MODULE Spec2Model ----
(***************************************************************************)
(* Model of the story-video pipeline of text2story-generator:              *)
(* the /generate-story route (src/app.py generate_story) and the render    *)
(* function create_story_video with its helper                             *)
(* create_simple_visible_text_clip.                                        *)
(*                                                                         *)
(* Strings are sequences of tokens; the token " " is whitespace.  Every    *)
(* call that leaves the process (HTTP download, decoder, encoder, unlink,  *)
(* close of a media reader) either returns or raises; which of the two     *)
(* happens is chosen nondeterministically in the step that makes the call. *)
(*                                                                         *)
(* The helper functions (text cleaning, wrapping and line layout of        *)
(* src/utils.py and of the video text layer, color parsing, and            *)
(* AudioService.search_audio) are operators; each has a specification      *)
(* that draws its arguments in the initial state and applies it in one     *)
(* step, recording arguments and results in the variable `call`.           *)
(***************************************************************************)
EXTENDS Integers, Sequences, FiniteSets, TLC

\* ------------------------------------------------------------------ bounds
\* Longest background / audio source the environment hands back, seconds.
MaxSourceDuration == 20
\* Largest requested duration besides the configured default, seconds.
MaxRequestDuration == 16

\* ------------------------------------------------------- program constants
DEFAULT_VIDEO_DURATION == 15
StoryWidth == 1080
StoryHeight == 1920
ResizeCeiling == 1920
ResizeHeight == 1920
FallbackTextHeight == 200
FullFps == 24
ConservativeFps == 15

\* ------------------------------------------------------------- invocations
Procs == {1, 2}

\* ------------------------------------------------------------------ strings
WS == " "

RECURSIVE LStrip(_)
LStrip(s) == IF s # <<>> /\ Head(s) = WS THEN LStrip(Tail(s)) ELSE s

RECURSIVE RStrip(_)
RStrip(s) ==
    IF s # <<>> /\ s[Len(s)] = WS THEN RStrip(SubSeq(s, 1, Len(s) - 1)) ELSE s

\* str.strip()
Strip(s) == RStrip(LStrip(s))

\* Python truthiness of a string
Truthy(s) == s # <<>>

\* `url and url.strip()`
GivenRef(url) == Truthy(url) /\ Truthy(Strip(url))

\* url.startswith('http')
StartsWithHttp(url) == url # <<>> /\ Head(url) \in {"http:", "https:"}

\* ------------------------------------------------------------------- inputs
Texts == { <<>>, <<WS>>, <<"poem">> }
VideoUrls == { <<>>, <<WS>>, <<"https:", "cdn", "v.mp4">>, <<"media", "v.mp4">> }
AudioUrls == { <<>>, <<"https:", "cdn", "a.mp3">>, <<"media", "a.mp3">> }
Durations == { DEFAULT_VIDEO_DURATION, MaxRequestDuration }

\* what a decoder may report for a source it managed to open
SourceDims == { <<1080, 1920>>, <<3840, 2160>>, <<2160, 3840>>,
                <<0, 1920>>, <<1080, -1>> }
VideoSourceDurations == { 5, MaxSourceDuration }
AudioSourceDurations == { -1, 0, 5, MaxSourceDuration }

\* ------------------------------------------------------------------- paths
NoPath == <<>>
\* story_<uuid4 hex, 8 digits>.mp4; the random part is taken as distinct per
\* invocation, as are the names NamedTemporaryFile hands out
OutputPath(p) == <<"story_uuid.mp4", p>>
TempVideoPath(p) == <<"tmp.mp4", p>>
TempAudioPath(p) == <<"tmp.mp3", p>>
\* temp_audiofile='temp_audio.m4a' of the first write_videofile call
ScratchAudioPath == <<"temp_audio.m4a", 0>>
\* scratch file the encoder names after the output file when none is given
DerivedScratchPath(p) == <<"story_uuid.mp4.wvf_snd", p>>

\* -------------------------------------------------------------------- clips
NoAudio == <<>>
NoClip == [kind |-> "none", w |-> 0, h |-> 0, duration |-> 0, audio |-> NoAudio]

FallbackClipLandscape(d) ==
    [kind |-> "color", w |-> StoryHeight, h |-> StoryWidth,
     duration |-> d, audio |-> NoAudio]

\* ColorClip(size=(1080, 1920), color=(0, 0, 0), duration=duration)
FallbackClip(d) ==
    [kind |-> "color", w |-> StoryWidth, h |-> StoryHeight,
     duration |-> d, audio |-> NoAudio]

FileClip(dims, d) ==
    [kind |-> "file", w |-> dims[1], h |-> dims[2], duration |-> d,
     audio |-> NoAudio]

Max(a, b) == IF a >= b THEN a ELSE b
Min(a, b) == IF a <= b THEN a ELSE b

VARIABLES live, pc, req, video_clip, text_clip, final_clip, temp_video_path,
          attempts, result, response, files, access, created, trace, call

vars == <<live, pc, req, video_clip, text_clip, final_clip, temp_video_path,
          attempts, result, response, files, access, created, trace, call>>

NoReq == [text |-> <<>>, video_url |-> <<>>, audio_url |-> <<>>, duration |-> 0]
\* what happened so far in a call (history only, read by no action)
NoTrace == [video |-> "none", videoFail |-> "none", dims |-> <<0, 0>>,
            audio |-> "none", audioFail |-> "none", audioDur |-> 0,
            ready |-> FALSE, closeRaised |-> FALSE,
            closed |-> 0, audioCloses |-> 0]
\* `call` holds one application of a helper function (its name, arguments
\* and results); the render pipeline leaves it alone
NoCall == [fn |-> "none"]

\* the variables of the render pipeline
pipeline == <<live, pc, req, video_clip, text_clip, final_clip, temp_video_path,
              attempts, result, response, files, access, created, trace>>

PipelineInit(procs) ==
    /\ live = procs
    /\ pc = [p \in Procs |-> "idle"]
    /\ req = [p \in Procs |-> NoReq]
    /\ video_clip = [p \in Procs |-> NoClip]
    /\ text_clip = [p \in Procs |-> NoClip]
    /\ final_clip = [p \in Procs |-> NoClip]
    /\ temp_video_path = [p \in Procs |-> NoPath]
    /\ attempts = [p \in Procs |-> <<>>]
    /\ result = [p \in Procs |-> "none"]
    /\ response = [p \in Procs |-> 0]
    /\ files = {}
    /\ access = {}
    /\ created = [p \in Procs |-> {}]
    /\ trace = [p \in Procs |-> NoTrace]

InitWith(procs) ==
    /\ PipelineInit(procs)
    /\ call = NoCall

Init == InitWith({1})

\* ------------------------------------------------------------ generate_story
\* The route reads the request, rejects a falsy poem_text with 400 and
\* otherwise calls create_story_video with a fresh output path.
GenerateStoryFrom(p, texts, vurls, aurls, durs) ==
    /\ p \in live
    /\ pc[p] = "idle"
    /\ \E t \in texts, v \in vurls, a \in aurls, d \in durs :
          /\ req' = [req EXCEPT ![p] =
                        [text |-> t, video_url |-> v, audio_url |-> a,
                         duration |-> d]]
          /\ IF ~Truthy(t)
                THEN /\ pc' = [pc EXCEPT ![p] = "rejected"]
                     /\ response' = [response EXCEPT ![p] = 400]
                ELSE /\ pc' = [pc EXCEPT ![p] = "acquire"]
                     /\ UNCHANGED response
    /\ UNCHANGED <<call, live, video_clip, text_clip, final_clip, temp_video_path,
                   attempts, result, files, access, created, trace>>

GenerateStory(p) == GenerateStoryFrom(p, Texts, VideoUrls, AudioUrls, Durations)

\* ---------------------------------------------------- small state updaters
Touch(p, paths) == access \cup { <<p, f>> : f \in paths }

SetTrace(p, field, val) == [trace EXCEPT ![p] = [@ EXCEPT ![field] = val]]

\* ------------------------------------------- create_story_video: background
\* Failure points of the remote branch, in program order:
\*   "get"    requests.get raises               (no temp file yet)
\*   "status" raise_for_status raises           (no temp file yet)
\*   "stream" iter_content / write raises       (temp file exists, its name
\*                                               was not yet stored)
\*   "decode" VideoFileClip raises              (temp file exists, name stored)
\*   "attr"   the clip has no w / h attribute   (temp file exists, name stored)
RemoteVideoFailures == {"get", "status", "stream", "decode", "attr"}

\* the branch `else: ColorClip(...)` of `if video_url and video_url.strip()`
AcquireNone(p) ==
    /\ p \in live
    /\ pc[p] = "acquire"
    /\ ~GivenRef(req[p].video_url)
    /\ video_clip' = [video_clip EXCEPT ![p] = FallbackClip(req[p].duration)]
    /\ trace' = SetTrace(p, "video", "absent")
    /\ pc' = [pc EXCEPT ![p] = "trim"]
    /\ UNCHANGED <<call, live, req, text_clip, final_clip, temp_video_path, attempts,
                   result, response, files, access, created>>

\* temp_video_path is assigned only after the download loop has finished
StoredTempVideoPath(p, f) ==
    IF f \in {"decode", "attr"} THEN TempVideoPath(p) ELSE NoPath

\* remote reference, some step of the inner try raises: fallback background
AcquireRemoteFail(p) ==
    /\ p \in live
    /\ pc[p] = "acquire"
    /\ GivenRef(req[p].video_url)
    /\ StartsWithHttp(req[p].video_url)
    /\ \E f \in RemoteVideoFailures :
          LET made == IF f \in {"stream", "decode", "attr"}
                         THEN {TempVideoPath(p)} ELSE {}
          IN  /\ files' = files \cup made
              /\ created' = [created EXCEPT ![p] = @ \cup made]
              /\ access' = Touch(p, made)
              /\ temp_video_path' =
                     [temp_video_path EXCEPT ![p] = StoredTempVideoPath(p, f)]
              /\ trace' = [trace EXCEPT ![p] =
                              [@ EXCEPT !.video = "failed", !.videoFail = f]]
    /\ video_clip' = [video_clip EXCEPT ![p] = FallbackClip(req[p].duration)]
    /\ pc' = [pc EXCEPT ![p] = "trim"]
    /\ UNCHANGED <<call, live, req, text_clip, final_clip, attempts, result, response>>

\* remote reference downloaded and opened
AcquireRemoteOk(p) ==
    /\ p \in live
    /\ pc[p] = "acquire"
    /\ GivenRef(req[p].video_url)
    /\ StartsWithHttp(req[p].video_url)
    /\ \E dims \in SourceDims, d \in VideoSourceDurations :
          /\ video_clip' = [video_clip EXCEPT ![p] = FileClip(dims, d)]
          /\ trace' = [trace EXCEPT ![p] =
                          [@ EXCEPT !.video = "ok", !.dims = dims]]
    /\ files' = files \cup {TempVideoPath(p)}
    /\ created' = [created EXCEPT ![p] = @ \cup {TempVideoPath(p)}]
    /\ access' = Touch(p, {TempVideoPath(p)})
    /\ temp_video_path' = [temp_video_path EXCEPT ![p] = TempVideoPath(p)]
    /\ pc' = [pc EXCEPT ![p] = "trim"]
    /\ UNCHANGED <<call, live, req, text_clip, final_clip, attempts, result, response>>

\* local path, VideoFileClip(video_url) raises
AcquireLocalFail(p) ==
    /\ p \in live
    /\ pc[p] = "acquire"
    /\ GivenRef(req[p].video_url)
    /\ ~StartsWithHttp(req[p].video_url)
    /\ video_clip' = [video_clip EXCEPT ![p] = FallbackClip(req[p].duration)]
    /\ trace' = [trace EXCEPT ![p] =
                    [@ EXCEPT !.video = "failed", !.videoFail = "decode"]]
    /\ pc' = [pc EXCEPT ![p] = "trim"]
    /\ UNCHANGED <<call, live, req, text_clip, final_clip, temp_video_path, attempts,
                   result, response, files, access, created>>

\* local path opened
AcquireLocalOk(p) ==
    /\ p \in live
    /\ pc[p] = "acquire"
    /\ GivenRef(req[p].video_url)
    /\ ~StartsWithHttp(req[p].video_url)
    /\ \E dims \in SourceDims, d \in VideoSourceDurations :
          /\ video_clip' = [video_clip EXCEPT ![p] = FileClip(dims, d)]
          /\ trace' = [trace EXCEPT ![p] =
                          [@ EXCEPT !.video = "ok", !.dims = dims]]
    /\ pc' = [pc EXCEPT ![p] = "trim"]
    /\ UNCHANGED <<call, live, req, text_clip, final_clip, temp_video_path, attempts,
                   result, response, files, access, created>>

\* the background as acquired, whatever its duration
TrimClipNever(clip, d) == clip

\* if video_clip.duration > duration: video_clip = video_clip.subclip(0, duration)
TrimClip(clip, d) == IF clip.duration > d THEN [clip EXCEPT !.duration = d] ELSE clip

Trim(p) ==
    /\ p \in live
    /\ pc[p] = "trim"
    /\ video_clip' = [video_clip EXCEPT ![p] = TrimClip(@, req[p].duration)]
    /\ pc' = [pc EXCEPT ![p] = "dimcheck"]
    /\ UNCHANGED <<call, live, req, text_clip, final_clip, temp_video_path, attempts,
                   result, response, files, access, created, trace>>

ValidDimsWidthOnly(clip) == clip.w > 0

\* video_clip.w > 0 and video_clip.h > 0
ValidDims(clip) == clip.w > 0 /\ clip.h > 0

\* the dimension check; from here on the background is ready
DimCheck(p) ==
    /\ p \in live
    /\ pc[p] = "dimcheck"
    /\ video_clip' = [video_clip EXCEPT ![p] =
                         IF ValidDims(@) THEN @ ELSE FallbackClip(req[p].duration)]
    /\ trace' = SetTrace(p, "ready", TRUE)
    /\ pc' = [pc EXCEPT ![p] = "text"]
    /\ UNCHANGED <<call, live, req, text_clip, final_clip, temp_video_path, attempts,
                   result, response, files, access, created>>

\* -------------------------------------------- create_simple_visible_text_clip
\* int(video_width * 0.8), int(video_height * 0.6) for positive sizes
TextAreaWidth(vw) == (vw * 8) \div 10
TextAreaHeight(vh) == (vh * 6) \div 10

\* a text layer as wide as the background
TextClipForFullWidth(vw, vh, d, raised) ==
    [kind |-> IF raised THEN "color" ELSE "image",
     w |-> vw,
     h |-> IF raised THEN FallbackTextHeight ELSE TextAreaHeight(vh),
     duration |-> d, audio |-> NoAudio]

\* the ImageClip of the try block, or the ColorClip of its except block
TextClipFor(vw, vh, d, raised) ==
    [kind |-> IF raised THEN "color" ELSE "image",
     w |-> TextAreaWidth(vw),
     h |-> IF raised THEN FallbackTextHeight ELSE TextAreaHeight(vh),
     duration |-> d, audio |-> NoAudio]

\* a text layer sized for the 1080x1920 story canvas, whatever the background
TextLayerForStoryCanvas(p) ==
    /\ p \in live
    /\ pc[p] = "text"
    /\ \E raised \in BOOLEAN :
          text_clip' = [text_clip EXCEPT ![p] =
              TextClipFor(StoryWidth, StoryHeight, req[p].duration, raised)]
    /\ pc' = [pc EXCEPT ![p] = "audio"]
    /\ UNCHANGED <<call, live, req, video_clip, final_clip, temp_video_path, attempts,
                   result, response, files, access, created, trace>>

TextLayer(p) ==
    /\ p \in live
    /\ pc[p] = "text"
    /\ \E raised \in BOOLEAN :
          text_clip' = [text_clip EXCEPT ![p] =
              TextClipFor(video_clip[p].w, video_clip[p].h, req[p].duration, raised)]
    /\ pc' = [pc EXCEPT ![p] = "audio"]
    /\ UNCHANGED <<call, live, req, video_clip, final_clip, temp_video_path, attempts,
                   result, response, files, access, created, trace>>

\* ------------------------------------------------ create_story_video: audio
\* Failure points of the remote audio branch, in program order; from
\* "stream" on the temp file exists, and nothing after the failure unlinks it.
RemoteAudioFailures == {"get", "status", "stream", "decode"}

AttachAudioUnchecked(clip, adur, d) == [clip EXCEPT !.audio = <<adur>>]

\* Validate, trim and attach:
\*   if d <= 0: close            elif d > duration: subclip(0, duration)
\*   if d > 0: video_clip.set_audio(audio_clip)   else: close
AttachAudio(clip, adur, d) ==
    LET trimmed == IF adur <= 0 THEN adur
                   ELSE IF adur > d THEN d ELSE adur
    IN  IF trimmed > 0 THEN [clip EXCEPT !.audio = <<trimmed>>] ELSE clip

\* audio_clip.close() calls made on an opened audio clip: one in
\* `if audio_clip.duration <= 0`, one more in the `else` of
\* `if audio_clip.duration > 0`
AudioCloses(adur) == IF adur <= 0 THEN 2 ELSE 0

\* `if audio_url and audio_url.strip()` is false
AudioNone(p) ==
    /\ p \in live
    /\ pc[p] = "audio"
    /\ ~GivenRef(req[p].audio_url)
    /\ trace' = SetTrace(p, "audio", "absent")
    /\ pc' = [pc EXCEPT ![p] = "composite"]
    /\ UNCHANGED <<call, live, req, video_clip, text_clip, final_clip, temp_video_path,
                   attempts, result, response, files, access, created>>

\* remote audio, some step raises: `except Exception: ... pass`
AudioRemoteFail(p) ==
    /\ p \in live
    /\ pc[p] = "audio"
    /\ GivenRef(req[p].audio_url)
    /\ StartsWithHttp(req[p].audio_url)
    /\ \E f \in RemoteAudioFailures :
          LET made == IF f \in {"stream", "decode"}
                         THEN {TempAudioPath(p)} ELSE {}
          IN  /\ files' = files \cup made
              /\ created' = [created EXCEPT ![p] = @ \cup made]
              /\ access' = Touch(p, made)
              /\ trace' = [trace EXCEPT ![p] =
                              [@ EXCEPT !.audio = "failed", !.audioFail = f]]
    /\ pc' = [pc EXCEPT ![p] = "composite"]
    /\ UNCHANGED <<call, live, req, video_clip, text_clip, final_clip, temp_video_path,
                   attempts, result, response>>

\* remote audio downloaded and opened; the temp file is unlinked right after
\* loading (`try: os.unlink(...) except: pass`)
AudioRemoteOk(p) ==
    /\ p \in live
    /\ pc[p] = "audio"
    /\ GivenRef(req[p].audio_url)
    /\ StartsWithHttp(req[p].audio_url)
    /\ \E adur \in AudioSourceDurations, unlinked \in BOOLEAN :
          /\ video_clip' = [video_clip EXCEPT ![p] =
                               AttachAudio(@, adur, req[p].duration)]
          /\ files' = IF unlinked THEN files \ {TempAudioPath(p)}
                                  ELSE files \cup {TempAudioPath(p)}
          /\ trace' = [trace EXCEPT ![p] =
                          [@ EXCEPT !.audio = "ok", !.audioDur = adur,
                                    !.audioCloses = AudioCloses(adur)]]
    /\ created' = [created EXCEPT ![p] = @ \cup {TempAudioPath(p)}]
    /\ access' = Touch(p, {TempAudioPath(p)})
    /\ pc' = [pc EXCEPT ![p] = "composite"]
    /\ UNCHANGED <<call, live, req, text_clip, final_clip, temp_video_path, attempts,
                   result, response>>

\* local audio, AudioFileClip(audio_url) raises and nothing catches it
\* before the function-wide handler
AudioLocalFailFatal(p) ==
    /\ p \in live
    /\ pc[p] = "audio"
    /\ GivenRef(req[p].audio_url)
    /\ ~StartsWithHttp(req[p].audio_url)
    /\ trace' = [trace EXCEPT ![p] =
                    [@ EXCEPT !.audio = "failed", !.audioFail = "decode"]]
    /\ pc' = [pc EXCEPT ![p] = "handler"]
    /\ UNCHANGED <<call, live, req, video_clip, text_clip, final_clip, temp_video_path,
                   attempts, result, response, files, access, created>>

\* local audio, AudioFileClip(audio_url) raises
AudioLocalFail(p) ==
    /\ p \in live
    /\ pc[p] = "audio"
    /\ GivenRef(req[p].audio_url)
    /\ ~StartsWithHttp(req[p].audio_url)
    /\ trace' = [trace EXCEPT ![p] =
                    [@ EXCEPT !.audio = "failed", !.audioFail = "decode"]]
    /\ pc' = [pc EXCEPT ![p] = "composite"]
    /\ UNCHANGED <<call, live, req, video_clip, text_clip, final_clip, temp_video_path,
                   attempts, result, response, files, access, created>>

\* local audio opened
AudioLocalOk(p) ==
    /\ p \in live
    /\ pc[p] = "audio"
    /\ GivenRef(req[p].audio_url)
    /\ ~StartsWithHttp(req[p].audio_url)
    /\ \E adur \in AudioSourceDurations :
          /\ video_clip' = [video_clip EXCEPT ![p] =
                               AttachAudio(@, adur, req[p].duration)]
          /\ trace' = [trace EXCEPT ![p] =
                          [@ EXCEPT !.audio = "ok", !.audioDur = adur,
                                    !.audioCloses = AudioCloses(adur)]]
    /\ pc' = [pc EXCEPT ![p] = "composite"]
    /\ UNCHANGED <<call, live, req, text_clip, final_clip, temp_video_path, attempts,
                   result, response, files, access, created>>

\* ------------------------------------------- create_story_video: composite
\* CompositeVideoClip([bg, text]): frame size of the first clip, duration the
\* latest end of its clips, audio of the clips that carry one
CompositeOf(bg, text) ==
    [kind |-> "composite", w |-> bg.w, h |-> bg.h,
     duration |-> Max(bg.duration, text.duration), audio |-> bg.audio]

Composite(p) ==
    /\ p \in live
    /\ pc[p] = "composite"
    /\ final_clip' = [final_clip EXCEPT ![p] = CompositeOf(video_clip[p], text_clip[p])]
    /\ pc' = [pc EXCEPT ![p] = "enc1"]
    /\ UNCHANGED <<call, live, req, video_clip, text_clip, temp_video_path, attempts,
                   result, response, files, access, created, trace>>

\* --------------------------------------------- create_story_video: encoding
HasAudio(clip) == clip.audio # NoAudio

\* the clip with whatever audio it carries
WithoutAudioKeepsTrack(clip) == clip

\* clip.without_audio()
WithoutAudio(clip) == [clip EXCEPT !.audio = NoAudio]

\* clip.resize(height=H): the width follows in proportion, truncated
ResizeToHeight(clip, H) == [clip EXCEPT !.w = (clip.w * H) \div clip.h, !.h = H]

\* `if video_clip.w > 1920 or video_clip.h > 1920`
TooLarge(clip) == clip.w > ResizeCeiling \/ clip.h > ResizeCeiling

\* the clip attempt 3 writes: re-composited from the resized background and
\* the resized text layer when the background is too large
ConservativeClip(bg, text, fc) ==
    IF TooLarge(bg)
       THEN CompositeOf(ResizeToHeight(bg, ResizeHeight),
                        ResizeToHeight(text, ResizeHeight))
       ELSE fc

\* one entry of the log of write_videofile calls; bgScale and textScale are
\* the resize factors of the two layers as <<numerator, denominator>>
Attempt(k, fps, bitrate, preset, clip, bgScale, textScale, ok) ==
    [k |-> k, fps |-> fps, codec |-> "libx264", bitrate |-> bitrate,
     preset |-> preset, audio |-> HasAudio(clip), w |-> clip.w, h |-> clip.h,
     duration |-> clip.duration, bgScale |-> bgScale, textScale |-> textScale,
     ok |-> ok]

\* where control goes after attempt k returned (ok) or raised
NextAfterAttemptSkipsCheck(k, ok) ==
    CASE k = 1 -> "enc2"
      [] k = 2 -> IF ok THEN "close" ELSE "enc3"
      [] OTHER -> IF ok THEN "close" ELSE "handler"

NextAfterAttempt(k, ok) ==
    IF ok THEN "close"
    ELSE CASE k = 1 -> "enc2"
           [] k = 2 -> "enc3"
           [] OTHER -> "handler"

\* first attempt: 24 fps, with audio, scratch file 'temp_audio.m4a'
Encode1(p) ==
    /\ p \in live
    /\ pc[p] = "enc1"
    /\ LET fc == final_clip[p]
           scratch == IF HasAudio(fc) THEN {ScratchAudioPath} ELSE {}
       IN  /\ \E ok \in BOOLEAN :
                 /\ attempts' = [attempts EXCEPT ![p] =
                        Append(@, Attempt(1, FullFps, "default", "default", fc,
                                          <<1, 1>>, <<1, 1>>, ok))]
                 /\ pc' = [pc EXCEPT ![p] = NextAfterAttempt(1, ok)]
                 /\ IF ok
                       THEN files' = (files \cup {OutputPath(p)}) \ scratch
                       ELSE \E left \in SUBSET scratch : files' = files \cup left
           /\ created' = [created EXCEPT ![p] = @ \cup scratch]
           /\ access' = Touch(p, {OutputPath(p)} \cup scratch)
    /\ UNCHANGED <<call, live, req, video_clip, text_clip, final_clip, temp_video_path,
                   result, response, trace>>

\* second attempt: audio dropped, bitrate 2000k, no scratch file
Encode2(p) ==
    /\ p \in live
    /\ pc[p] = "enc2"
    /\ LET fc == WithoutAudio(final_clip[p])
       IN  /\ final_clip' = [final_clip EXCEPT ![p] = fc]
           /\ \E ok \in BOOLEAN :
                 /\ attempts' = [attempts EXCEPT ![p] =
                        Append(@, Attempt(2, FullFps, "2000k", "default", fc,
                                          <<1, 1>>, <<1, 1>>, ok))]
                 /\ pc' = [pc EXCEPT ![p] = NextAfterAttempt(2, ok)]
                 /\ files' = IF ok THEN files \cup {OutputPath(p)} ELSE files
    /\ access' = Touch(p, {OutputPath(p)})
    /\ UNCHANGED <<call, live, req, video_clip, text_clip, temp_video_path, result,
                   response, created, trace>>

\* third attempt: 15 fps, ultrafast, 1000k, resized when too large; the
\* encoder names its own scratch file after the output file
Encode3(p) ==
    /\ p \in live
    /\ pc[p] = "enc3"
    /\ LET bg == video_clip[p]
           fc == ConservativeClip(bg, text_clip[p], final_clip[p])
           bgScale == IF TooLarge(bg) THEN <<ResizeHeight, bg.h>> ELSE <<1, 1>>
           textScale == IF TooLarge(bg) THEN <<ResizeHeight, text_clip[p].h>>
                                        ELSE <<1, 1>>
           scratch == IF HasAudio(fc) THEN {DerivedScratchPath(p)} ELSE {}
       IN  /\ final_clip' = [final_clip EXCEPT ![p] = fc]
           /\ \E ok \in BOOLEAN :
                 /\ attempts' = [attempts EXCEPT ![p] =
                        Append(@, Attempt(3, ConservativeFps, "1000k", "ultrafast",
                                          fc, bgScale, textScale, ok))]
                 /\ pc' = [pc EXCEPT ![p] = NextAfterAttempt(3, ok)]
                 /\ IF ok
                       THEN files' = (files \cup {OutputPath(p)}) \ scratch
                       ELSE \E left \in SUBSET scratch : files' = files \cup left
           /\ created' = [created EXCEPT ![p] = @ \cup scratch]
           /\ access' = Touch(p, {OutputPath(p)} \cup scratch)
    /\ UNCHANGED <<call, live, req, video_clip, text_clip, temp_video_path, result,
                   response, trace>>

\* ------------------------------------------ create_story_video: the way out
\* video_clip.close(); text_clip.close(); final_clip.close()  -- not guarded
\* by an inner try: a raise lands in the outer handler, and the calls after
\* the raising one are not made.  `closed` counts the calls that returned.
CloseCalls == 3

CloseClips(p) ==
    /\ p \in live
    /\ pc[p] = "close"
    /\ \E raised \in BOOLEAN :
          /\ pc' = [pc EXCEPT ![p] = IF raised THEN "handler" ELSE "cleanup"]
          /\ \E n \in 0..CloseCalls :
                /\ raised <=> n < CloseCalls
                /\ trace' = [trace EXCEPT ![p] =
                                [@ EXCEPT !.closeRaised = raised, !.closed = n]]
    /\ UNCHANGED <<call, live, req, video_clip, text_clip, final_clip, temp_video_path,
                   attempts, result, response, files, access, created>>

\* `if temp_video_path and os.path.exists(temp_video_path): try: os.unlink`
UnlinkTempVideo(p, unlinked) ==
    IF temp_video_path[p] # NoPath /\ temp_video_path[p] \in files /\ unlinked
       THEN files \ {temp_video_path[p]}
       ELSE files

\* end of the try block: clean up and return True
CleanupTemp(p) ==
    /\ p \in live
    /\ pc[p] = "cleanup"
    /\ \E unlinked \in BOOLEAN : files' = UnlinkTempVideo(p, unlinked)
    /\ result' = [result EXCEPT ![p] = "True"]
    /\ pc' = [pc EXCEPT ![p] = "done"]
    /\ UNCHANGED <<call, live, req, video_clip, text_clip, final_clip, temp_video_path,
                   attempts, response, access, created, trace>>

OuterExceptReraises(p) ==
    /\ p \in live
    /\ pc[p] = "handler"
    /\ \E unlinked \in BOOLEAN : files' = UnlinkTempVideo(p, unlinked)
    /\ pc' = [pc EXCEPT ![p] = "escaped"]
    /\ UNCHANGED <<call, live, req, video_clip, text_clip, final_clip, temp_video_path,
                   attempts, result, response, access, created, trace>>

\* `except Exception as e:` of the whole function: clean up and return False
OuterExcept(p) ==
    /\ p \in live
    /\ pc[p] = "handler"
    /\ \E unlinked \in BOOLEAN : files' = UnlinkTempVideo(p, unlinked)
    /\ result' = [result EXCEPT ![p] = "False"]
    /\ pc' = [pc EXCEPT ![p] = "done"]
    /\ UNCHANGED <<call, live, req, video_clip, text_clip, final_clip, temp_video_path,
                   attempts, response, access, created, trace>>

\* generate_story answers 200 on success and 500 otherwise
Respond(p) ==
    /\ p \in live
    /\ pc[p] = "done"
    /\ response' = [response EXCEPT ![p] = IF result[p] = "True" THEN 200 ELSE 500]
    /\ pc' = [pc EXCEPT ![p] = "responded"]
    /\ UNCHANGED <<call, live, req, video_clip, text_clip, final_clip, temp_video_path,
                   attempts, result, files, access, created, trace>>

\* ------------------------------------------------------------ specifications
Render(p) ==
    \/ AcquireNone(p) \/ AcquireRemoteFail(p) \/ AcquireRemoteOk(p)
    \/ AcquireLocalFail(p) \/ AcquireLocalOk(p)
    \/ Trim(p) \/ DimCheck(p) \/ TextLayer(p)
    \/ AudioNone(p) \/ AudioRemoteFail(p) \/ AudioRemoteOk(p)
    \/ AudioLocalFail(p) \/ AudioLocalOk(p)
    \/ Composite(p) \/ Encode1(p) \/ Encode2(p) \/ Encode3(p)
    \/ CloseClips(p) \/ CleanupTemp(p) \/ OuterExcept(p)

Next == \E p \in Procs : GenerateStory(p) \/ Render(p) \/ Respond(p)

Spec == Init /\ [][Next]_vars

\* the same program, with the weak fairness of a running worker
LiveSpec == Init /\ [][Next]_vars /\ WF_vars(Next)

\* Two invocations of the route running at once (two workers sharing the
\* working directory), each with a poem, no background reference and a
\* local or remote audio reference.
InitConc == InitWith(Procs)

GenerateStoryConc(p) ==
    GenerateStoryFrom(p, { <<"poem">> }, { <<>> },
                      { <<"https:", "cdn", "a.mp3">>, <<"media", "a.mp3">> },
                      { DEFAULT_VIDEO_DURATION })

NextConc ==
    \E p \in Procs :
        \/ GenerateStoryConc(p)
        \/ AcquireNone(p) \/ Trim(p) \/ DimCheck(p) \/ TextLayer(p)
        \/ AudioRemoteFail(p) \/ AudioRemoteOk(p)
        \/ AudioLocalFail(p) \/ AudioLocalOk(p)
        \/ Composite(p) \/ Encode1(p) \/ Encode2(p) \/ Encode3(p)
        \/ CloseClips(p) \/ CleanupTemp(p) \/ OuterExcept(p)
        \/ Respond(p)

SpecConc == InitConc /\ [][NextConc]_vars

\* ------------------------------------------------------- text as characters
\* In the text helpers of utils.py a string is a sequence of characters; a
\* token that is not one of the four below stands for a run of one or more
\* characters that are not whitespace.
SP == " "
TAB == "\t"
LF == "\n"
CR == "\r"

\* what str.strip() removes
Whitespace == {SP, TAB, LF, CR}
\* what the class [ \t] of the regular expression matches
Blank == {SP, TAB}

RECURSIVE LStripChars(_)
LStripChars(s) ==
    IF s # <<>> /\ Head(s) \in Whitespace THEN LStripChars(Tail(s)) ELSE s

RECURSIVE RStripChars(_)
RStripChars(s) ==
    IF s # <<>> /\ s[Len(s)] \in Whitespace
        THEN RStripChars(SubSeq(s, 1, Len(s) - 1))
        ELSE s

\* str.strip() on characters
StripChars(s) == RStripChars(LStripChars(s))

RECURSIVE DropBlanks(_)
DropBlanks(s) == IF s # <<>> /\ Head(s) \in Blank THEN DropBlanks(Tail(s)) ELSE s

\* replaces each pair of adjacent blanks by one space, left to right
RECURSIVE CollapseBlanksPairwise(_)
CollapseBlanksPairwise(s) ==
    IF s = <<>> THEN <<>>
    ELSE IF Head(s) \in Blank
        THEN IF Len(s) >= 2 /\ s[2] \in Blank
                THEN <<SP>> \o CollapseBlanksPairwise(Tail(Tail(s)))
                ELSE <<SP>> \o CollapseBlanksPairwise(Tail(s))
        ELSE <<Head(s)>> \o CollapseBlanksPairwise(Tail(s))

\* re.sub(r'[ \t]+', ' ', text)
RECURSIVE CollapseBlanks(_)
CollapseBlanks(s) ==
    IF s = <<>> THEN <<>>
    ELSE IF Head(s) \in Blank
        THEN <<SP>> \o CollapseBlanks(DropBlanks(Tail(s)))
        ELSE <<Head(s)>> \o CollapseBlanks(Tail(s))

\* text.split('\n'): a sequence of lines, never empty
RECURSIVE SplitLines(_)
SplitLines(s) ==
    IF \A i \in 1..Len(s) : s[i] # LF THEN <<s>>
    ELSE LET i == CHOOSE k \in 1..Len(s) :
                      /\ s[k] = LF
                      /\ \A j \in 1..(k - 1) : s[j] # LF
         IN  <<SubSeq(s, 1, i - 1)>> \o SplitLines(SubSeq(s, i + 1, Len(s)))

\* '\n'.join(lines)
RECURSIVE JoinLines(_)
JoinLines(lines) ==
    IF lines = <<>> THEN <<>>
    ELSE IF Len(lines) = 1 THEN lines[1]
    ELSE lines[1] \o <<LF>> \o JoinLines(Tail(lines))

\* the loop of clean_text_preserving_line_breaks over the split lines:
\* a line that is not empty once stripped is kept stripped, an empty one is
\* kept as '' only after a kept line that is not ''
RECURSIVE KeepLines(_, _)
KeepLines(lines, cleaned_lines) ==
    IF lines = <<>> THEN cleaned_lines
    ELSE LET line == StripChars(Head(lines))
         IN  IF line # <<>>
                 THEN KeepLines(Tail(lines), Append(cleaned_lines, line))
             ELSE IF cleaned_lines # <<>>
                     /\ cleaned_lines[Len(cleaned_lines)] # <<>>
                 THEN KeepLines(Tail(lines), Append(cleaned_lines, <<>>))
             ELSE KeepLines(Tail(lines), cleaned_lines)

\* the string "No text provided"
NoTextProvided == <<"No", SP, "text", SP, "provided">>

clean_text_preserving_line_breaks(text) ==
    IF text = <<>> \/ StripChars(text) = <<>> THEN NoTextProvided
    ELSE JoinLines(KeepLines(SplitLines(CollapseBlanks(StripChars(text))), <<>>))

\* longest text handed to the text helpers, in characters
MaxTextLen == 5

Chars == {"a", SP, TAB, LF, CR}

RECURSIVE StringsUpTo(_, _)
StringsUpTo(alphabet, n) ==
    IF n = 0 THEN { <<>> }
    ELSE LET shorter == StringsUpTo(alphabet, n - 1)
         IN  shorter \cup { Append(s, c) : s \in shorter, c \in alphabet }

RawTexts == StringsUpTo(Chars, MaxTextLen) \cup { NoTextProvided }

\* one text, cleaned and then cleaned again
InitClean ==
    /\ PipelineInit({})
    /\ \E t \in RawTexts :
          call = [fn |-> "clean_text_preserving_line_breaks",
                  text |-> t, ret |-> <<>>]

CleanText ==
    /\ call.fn = "clean_text_preserving_line_breaks"
    /\ Len(call.ret) < 2
    /\ LET arg == IF call.ret = <<>> THEN call.text ELSE call.ret[Len(call.ret)]
       IN  call' = [call EXCEPT
                       !.ret = Append(@, clean_text_preserving_line_breaks(arg))]
    /\ UNCHANGED pipeline

NextClean == CleanText

SpecClean == InitClean /\ [][NextClean]_vars

\* ------------------------------------------------------------ line layout
DEFAULT_FONT_SIZE == 80
\* largest font size requested
MaxFontSize == 200
\* most lines laid out
MaxLines == 12

PreviewHeight == 1920
PreviewWidth == 1080
MinFontVideo == 80
MinFontPreview == 80
MinFontPreviewDefault == 100
LineGapVideo == 20
LineGapFallback == 10

FontSizes == {0, 24, DEFAULT_FONT_SIZE, MaxFontSize}
VideoHeights == {1920, 2160, 3840}
\* height of the box of "Ay" that the font reports
GlyphHeights == {60, 150}

\* effective_font_size = max(font_size * 3, 80) of the video text layer
EffectiveFontVideo(font_size) == Max(font_size * 3, MinFontVideo)

\* effective_font_size of the preview: max(font_size * 2, 80), or
\* max(font_size * 3, 100) when no system font was found
EffectiveFontPreview(font_size, font_found) ==
    IF font_found THEN Max(font_size * 2, MinFontPreview)
    ELSE Max(font_size * 3, MinFontPreviewDefault)

\* calculate_line_height: box height plus int(font_size * 0.3), or
\* font_size + 10 when the measurement raises
calculate_line_height(glyph, raised, font_size) ==
    IF raised THEN font_size + LineGapFallback
    ELSE glyph + (font_size * 3) \div 10

\* line_height = effective_font_size + 20 of the video text layer
LineHeightVideo(effective_font_size) == effective_font_size + LineGapVideo

StartYUnclamped(n, line_height, text_height) ==
    (text_height - n * line_height) \div 2

\* start_y = max(0, (text_height - total_text_height) // 2)
StartY(n, line_height, text_height) ==
    Max(0, (text_height - n * line_height) \div 2)

\* y = start_y + (i * line_height) for i, line in enumerate(lines)
LineYs(n, line_height, text_height) ==
    [k \in 1..n |-> StartY(n, line_height, text_height) + (k - 1) * line_height]

\* n lines to lay out, in the preview image or in the video text layer
InitLayout ==
    /\ PipelineInit({})
    /\ \E n \in 0..MaxLines, fs \in FontSizes :
          \/ \E g \in GlyphHeights, raised \in BOOLEAN, found \in BOOLEAN :
                call = [fn |-> "layout", path |-> "preview", n |-> n,
                        font_size |-> fs, glyph |-> g, raised |-> raised,
                        font_found |-> found, done |-> FALSE]
          \/ \E vh \in VideoHeights :
                call = [fn |-> "layout", path |-> "video", n |-> n,
                        font_size |-> fs, video_height |-> vh, done |-> FALSE]

\* utils.py 275-298
LayOutPreview ==
    /\ call.fn = "layout" /\ call.path = "preview" /\ ~call.done
    /\ LET eff == EffectiveFontPreview(call.font_size, call.font_found)
           lh == calculate_line_height(call.glyph, call.raised, eff)
       IN  call' = [fn |-> "layout", path |-> "preview", n |-> call.n,
                    done |-> TRUE, line_height |-> lh,
                    text_height |-> PreviewHeight,
                    ys |-> LineYs(call.n, lh, PreviewHeight)]
    /\ UNCHANGED pipeline

\* app.py 1076-1090
LayOutVideo ==
    /\ call.fn = "layout" /\ call.path = "video" /\ ~call.done
    /\ LET lh == LineHeightVideo(EffectiveFontVideo(call.font_size))
           th == TextAreaHeight(call.video_height)
       IN  call' = [fn |-> "layout", path |-> "video", n |-> call.n,
                    done |-> TRUE, line_height |-> lh, text_height |-> th,
                    ys |-> LineYs(call.n, lh, th)]
    /\ UNCHANGED pipeline

NextLayout == LayOutPreview \/ LayOutVideo

SpecLayout == InitLayout /\ [][NextLayout]_vars

\* --------------------------------------------------------------- wrapping
\* Words of 1, 12 and 30 characters.  A token that is not whitespace is one
\* word; two words are never adjacent without whitespace between them.
Word1 == "a"
Word12 == "abcdefghijkl"
Word30 == "abcdefghijklmnopqrstuvwxyzabcd"

\* len() of a token
CharLen(tok) ==
    CASE tok = Word12 -> 12
      [] tok = Word30 -> 30
      [] tok = "No" -> 2
      [] tok = "text" -> 4
      [] tok = "provided" -> 8
      [] OTHER -> 1

\* len() of a string
RECURSIVE TextLen(_)
TextLen(s) == IF s = <<>> THEN 0 ELSE CharLen(Head(s)) + TextLen(Tail(s))

RECURSIVE DropWhitespace(_)
DropWhitespace(s) ==
    IF s # <<>> /\ Head(s) \in Whitespace THEN DropWhitespace(Tail(s)) ELSE s

\* re.sub(r'\s+', ' ', text)
RECURSIVE CollapseWhitespace(_)
CollapseWhitespace(s) ==
    IF s = <<>> THEN <<>>
    ELSE IF Head(s) \in Whitespace
        THEN <<SP>> \o CollapseWhitespace(DropWhitespace(Tail(s)))
        ELSE <<Head(s)>> \o CollapseWhitespace(Tail(s))

\* textwrap: the text split into chunks, a chunk being a word or a run of
\* whitespace (every whitespace character counts as one space)
RECURSIVE Chunks(_)
Chunks(s) ==
    IF s = <<>> THEN <<>>
    ELSE IF Head(s) \in Whitespace
        THEN LET rest == DropWhitespace(Tail(s))
             IN  <<[ws |-> TRUE, tok |-> SP, len |-> Len(s) - Len(rest)]>>
                     \o Chunks(rest)
        ELSE <<[ws |-> FALSE, tok |-> Head(s), len |-> CharLen(Head(s))]>>
                 \o Chunks(Tail(s))

\* number of characters of a line of chunks
RECURSIVE LineChars(_)
LineChars(line) ==
    IF line = <<>> THEN 0 ELSE Head(line).len + LineChars(Tail(line))

\* textwrap: chunks are moved to the current line while they fit
RECURSIVE FillLine(_, _, _)
FillLine(chunks, cur_line, width) ==
    IF chunks # <<>> /\ LineChars(cur_line) + Head(chunks).len <= width
        THEN FillLine(Tail(chunks), Append(cur_line, Head(chunks)), width)
        ELSE [cur_line |-> cur_line, chunks |-> chunks]

\* TextWrapper._wrap_chunks with the defaults (break_long_words and
\* drop_whitespace on): a whitespace chunk at the start of a line after the
\* first is dropped, chunks are added while they fit, a word longer than
\* the width is cut to fill the line, and one trailing chunk that is
\* whitespace or empty is dropped
RECURSIVE WrapChunks(_, _, _)
WrapChunks(chunks, width, lines_empty) ==
    IF chunks = <<>> THEN <<>>
    ELSE LET start == IF ~lines_empty /\ Head(chunks).ws
                          THEN Tail(chunks) ELSE chunks
             filled == FillLine(start, <<>>, width)
             long == filled.chunks # <<>> /\ Head(filled.chunks).len > width
             space_left == width - LineChars(filled.cur_line)
             cur == IF long
                        THEN Append(filled.cur_line,
                                    [Head(filled.chunks) EXCEPT !.len = space_left])
                        ELSE filled.cur_line
             rest == IF long
                         THEN <<[Head(filled.chunks) EXCEPT !.len = @ - space_left]>>
                                  \o Tail(filled.chunks)
                         ELSE filled.chunks
             kept == IF cur # <<>> /\ (cur[Len(cur)].ws \/ cur[Len(cur)].len = 0)
                         THEN SubSeq(cur, 1, Len(cur) - 1) ELSE cur
         IN  (IF kept # <<>> THEN <<kept>> ELSE <<>>)
                 \o WrapChunks(rest, width, lines_empty /\ kept = <<>>)

\* textwrap.wrap(text, width=width): a sequence of lines of chunks
textwrap_wrap(text, width) == WrapChunks(Chunks(text), width, TRUE)

WrapThreshold == 40
MinCharsPreview == 25
MinCharsVideo == 15

\* chars_per_line = max(25, int((text_width * 0.8) / (font_size * 0.6)))
CharsPerLinePreview(font_size, text_width) ==
    Max(MinCharsPreview, (text_width * 8) \div (font_size * 6))

\* chars_per_line = max(15, int(text_width / (effective_font_size * 0.6)))
CharsPerLineVideo(effective_font_size, text_width) ==
    Max(MinCharsVideo, (text_width * 10) \div (effective_font_size * 6))

\* the loop of process_text_lines over text.split('\n')
RECURSIVE ProcessLines(_, _, _)
ProcessLines(lines, font_size, text_width) ==
    IF lines = <<>> THEN <<>>
    ELSE LET line == Head(lines)
             out == IF StripChars(line) = <<>> THEN << <<>> >>
                    ELSE IF TextLen(line) > WrapThreshold
                        THEN textwrap_wrap(line,
                                 CharsPerLinePreview(font_size, text_width))
                    ELSE <<Chunks(line)>>
         IN  out \o ProcessLines(Tail(lines), font_size, text_width)

process_text_lines(text, font_size, text_width) ==
    ProcessLines(SplitLines(text), font_size, text_width)

\* create_simple_visible_text_clip: the placeholder for a blank text, then
\* strip and re.sub(r'\s+', ' ', text)
VideoNormalize(text) ==
    LET t == IF text = <<>> \/ StripChars(text) = <<>> THEN NoTextProvided
             ELSE text
    IN  CollapseWhitespace(StripChars(t))

\* most words on one line of a poem
MaxWords == 4

Words == {Word1, Word12, Word30}

\* ' '.join(words)
RECURSIVE JoinWords(_)
JoinWords(words) ==
    IF words = <<>> THEN <<>>
    ELSE IF Len(words) = 1 THEN words
    ELSE <<Head(words), SP>> \o JoinWords(Tail(words))

PoemLines == { JoinWords(ws) : ws \in StringsUpTo(Words, MaxWords) \ { <<>> } }

\* the empty text, one line, or a line followed by a one-word line, with
\* or without an empty line between them
Poems ==
    { <<>> } \cup PoemLines
        \cup { l \o sep \o <<w>> :
                  l \in PoemLines, sep \in { <<LF>>, <<LF, LF>> }, w \in Words }

VideoWidths == {1080, 3840}

\* Width of a glyph in tenths of a pixel: ImageFont.load_default() is a
\* fixed small font whatever the size asked for; a font loaded at a size
\* is taken at the width the code itself assumes, 0.6 * font_size.
DefaultFontAdvance10 == 60
ScaledFontAdvance10(font_size) == font_size * 6

\* a poem to wrap, for the preview image or for the video text layer
InitWrap ==
    /\ PipelineInit({})
    /\ \E t \in Poems, fs \in FontSizes :
          \/ \E found \in BOOLEAN :
                call = [fn |-> "wrap", path |-> "preview", text |-> t,
                        font_size |-> fs, font_found |-> found, done |-> FALSE]
          \/ \E vw \in VideoWidths :
                call = [fn |-> "wrap", path |-> "video", text |-> t,
                        font_size |-> fs, video_width |-> vw, done |-> FALSE]

\* create_text_preview_image_in_memory up to process_text_lines
WrapPreview ==
    /\ call.fn = "wrap" /\ call.path = "preview" /\ ~call.done
    /\ LET eff == EffectiveFontPreview(call.font_size, call.font_found)
           cleaned == clean_text_preserving_line_breaks(call.text)
       IN  call' = [fn |-> "wrap", path |-> "preview", text |-> call.text,
                    done |-> TRUE, font |-> eff, canvas |-> PreviewWidth,
                    area |-> PreviewWidth,
                    advance10 |-> IF call.font_found
                                      THEN ScaledFontAdvance10(eff)
                                      ELSE DefaultFontAdvance10,
                    lines |-> process_text_lines(cleaned, eff, PreviewWidth)]
    /\ UNCHANGED pipeline

\* create_simple_visible_text_clip up to textwrap.wrap
WrapVideo ==
    /\ call.fn = "wrap" /\ call.path = "video" /\ ~call.done
    /\ LET eff == EffectiveFontVideo(call.font_size)
           text_width == TextAreaWidth(call.video_width)
       IN  call' = [fn |-> "wrap", path |-> "video", text |-> call.text,
                    done |-> TRUE, font |-> eff, canvas |-> call.video_width,
                    area |-> text_width,
                    advance10 |-> DefaultFontAdvance10,
                    lines |-> textwrap_wrap(VideoNormalize(call.text),
                                 CharsPerLineVideo(eff, text_width))]
    /\ UNCHANGED pipeline

NextWrap == WrapPreview \/ WrapVideo

SpecWrap == InitWrap /\ [][NextWrap]_vars

\* ------------------------------------------------------- color resolution
\* A color string is a sequence of characters, or one token that is a
\* whole color name.
White == <<255, 255, 255>>

HexDigits == {"0", "F"}
HexValue(c) == IF c = "F" THEN 15 ELSE 0

\* text_color.lstrip('#')
RECURSIVE LStripHash(_)
LStripHash(s) == IF s # <<>> /\ Head(s) = "#" THEN LStripHash(Tail(s)) ELSE s

\* text_color[i:i+2]
Slice2(s, i) == SubSeq(s, i + 1, Min(i + 2, Len(s)))

\* int(digits, 16) of a slice of at most two characters; -1 when int raises
\* ValueError (empty slice, or a character that is no hex digit)
IntHex(digits) ==
    IF digits = <<>> \/ \E k \in 1..Len(digits) : digits[k] \notin HexDigits
        THEN -1
    ELSE IF Len(digits) = 1 THEN HexValue(digits[1])
    ELSE 16 * HexValue(digits[1]) + HexValue(digits[2])

\* tuple(int(text_color[i:i+2], 16) for i in (0, 2, 4)) after lstrip('#')
HexToRgb(text_color) ==
    LET digits == LStripHash(text_color)
        r == IntHex(Slice2(digits, 0))
        g == IntHex(Slice2(digits, 2))
        b == IntHex(Slice2(digits, 4))
    IN  IF r < 0 \/ g < 0 \/ b < 0
            THEN [raised |-> TRUE, rgb |-> <<>>]
            ELSE [raised |-> FALSE, rgb |-> <<r, g, b>>]

\* str.lower() of a color name
Lower(name) ==
    CASE name = "RED" -> "red"
      [] name = "White" -> "white"
      [] OTHER -> name

\* color_map.get(name, (255, 255, 255))
ColorMap(name) ==
    CASE name = "white" -> <<255, 255, 255>>
      [] name = "black" -> <<0, 0, 0>>
      [] name = "red" -> <<255, 0, 0>>
      [] name = "green" -> <<0, 255, 0>>
      [] name = "blue" -> <<0, 0, 255>>
      [] name = "yellow" -> <<255, 255, 0>>
      [] name = "cyan" -> <<0, 255, 255>>
      [] name = "magenta" -> <<255, 0, 255>>
      [] OTHER -> White

StartsWithHash(s) == s # <<>> /\ Head(s) = "#"

\* utils.parse_color
parse_color(text_color) ==
    IF StartsWithHash(text_color) THEN HexToRgb(text_color)
    ELSE [raised |-> FALSE,
          rgb |-> IF Len(text_color) = 1 THEN ColorMap(Lower(text_color[1]))
                  ELSE White]

\* the color parsing inlined in create_simple_visible_text_clip
InlineColor(text_color) ==
    IF StartsWithHash(text_color) THEN HexToRgb(text_color)
    ELSE [raised |-> FALSE, rgb |-> White]

\* longest color string, in characters
MaxColorLen == 7

ColorNames == {"white", "White", "black", "red", "RED", "green", "blue",
               "yellow", "cyan", "magenta", "teal"}

ColorStrings ==
    StringsUpTo({"#", "0", "F", "G"}, MaxColorLen)
        \cup { <<name>> : name \in ColorNames }

\* a color string to resolve, for the preview image or the video text layer
InitColor ==
    /\ PipelineInit({})
    /\ \E c \in ColorStrings, path \in {"preview", "video"} :
          call = [fn |-> "color", path |-> path, text_color |-> c,
                  done |-> FALSE, raised |-> FALSE, rgb |-> <<>>,
                  outcome |-> "pending"]

\* create_text_preview_image_in_memory: parse_color inside the try whose
\* handler returns None
ResolvePreview ==
    /\ call.fn = "color" /\ call.path = "preview" /\ ~call.done
    /\ LET c == parse_color(call.text_color)
       IN  call' = [call EXCEPT !.done = TRUE,
                       !.raised = c.raised, !.rgb = c.rgb,
                       !.outcome = IF c.raised THEN "none" ELSE "image"]
    /\ UNCHANGED pipeline

\* create_simple_visible_text_clip: the inline parsing inside the try whose
\* handler returns the fallback rectangle
ResolveVideo ==
    /\ call.fn = "color" /\ call.path = "video" /\ ~call.done
    /\ LET c == InlineColor(call.text_color)
       IN  call' = [call EXCEPT !.done = TRUE,
                       !.raised = c.raised, !.rgb = c.rgb,
                       !.outcome = IF c.raised THEN "rectangle" ELSE "text"]
    /\ UNCHANGED pipeline

NextColor == ResolvePreview \/ ResolveVideo

SpecColor == InitColor /\ [][NextColor]_vars

\* ------------------------------------------------------------ audio search
\* most entries asked for
MaxCount == 7
\* most tracks in one Jamendo response
MaxJamendoResults == 3

CuratedCategorySize == 6
CuratedDefaultSize == 8

\* the curated lists: six tracks per named category, eight in 'default'
CuratedTracks(category) ==
    LET n == IF category = "default" THEN CuratedDefaultSize
             ELSE CuratedCategorySize
    IN  [k \in 1..n |->
            [id |-> <<category, k>>, title |-> "title", url |-> "bensound url",
             duration |-> 120 + k, tags |-> "tags", source |-> "bensound",
             artist |-> "Bensound"]]

\* str.lower() of a theme word
LowerWord(w) == IF w = "Calm" THEN "calm" ELSE w

\* the category choice of _get_curated_audio over query.lower().split()
CategoryOf(query) ==
    LET themes == { LowerWord(query[i]) : i \in 1..Len(query) }
        any(words) == themes \cap words # {}
    IN  IF any({"calm", "peaceful", "ambient", "soft", "gentle", "quiet"})
            THEN "calm"
        ELSE IF any({"energetic", "upbeat", "happy", "joy", "passion", "dynamic"})
            THEN "energetic"
        ELSE IF any({"romantic", "love", "heart", "emotion", "passion"})
            THEN "romantic"
        ELSE IF any({"nature", "forest", "ocean", "mountain", "water", "bird",
                     "tree"})
            THEN "nature"
        ELSE "default"

\* the sequence as given, whatever n
SliceToAll(s, n) == s

\* s[:n]
SliceTo(s, n) ==
    IF n >= 0 THEN SubSeq(s, 1, Min(n, Len(s)))
    ELSE SubSeq(s, 1, Max(0, Len(s) + n))

\* random.shuffle: the orders tried are the rotations of the list and of
\* its reverse, which put every track at every place
Shuffles(tracks) ==
    LET n == Len(tracks)
        rot(r) == [k \in 1..n |-> tracks[((k - 1 + r) % n) + 1]]
        rev(r) == [k \in 1..n |-> tracks[((n - k + r) % n) + 1]]
    IN  { rot(r) : r \in 0..(n - 1) } \cup { rev(r) : r \in 0..(n - 1) }

\* _get_curated_audio(query, count): the possible values of
\* shuffled_tracks[:count]
CuratedAudio(query, count) ==
    { SliceTo(shuffled_tracks, count) :
          shuffled_tracks \in Shuffles(CuratedTracks(CategoryOf(query))) }

\* A track of a Jamendo response: with an audio URL, without one, or with
\* an audio URL and no 'id' key (track['id'] then raises KeyError).
JamendoTrackKinds == {"audio", "noaudio", "noid"}

JamendoResponses == StringsUpTo(JamendoTrackKinds, MaxJamendoResults)

RECURSIVE JamendoEntries(_, _)
JamendoEntries(results, k) ==
    IF results = <<>> THEN <<>>
    ELSE IF Head(results) = "audio"
        THEN <<[id |-> <<"jamendo", k>>, title |-> "name", url |-> "jamendo url",
                duration |-> 200 + k, tags |-> "tags", source |-> "jamendo",
                artist |-> "artist_name"]>> \o JamendoEntries(Tail(results), k + 1)
        ELSE JamendoEntries(Tail(results), k + 1)

\* _search_jamendo_audio: [] when the request raises, when the API reports
\* 'failed' or when building an entry raises; else the tracks with audio
SearchJamendo(outcome, results) ==
    IF outcome # "ok" \/ \E i \in 1..Len(results) : results[i] = "noid"
        THEN <<>>
        ELSE JamendoEntries(results, 1)

Queries == { <<>>, <<"Calm", "night">>, <<"happy">>, <<"passion">>,
             <<"love">>, <<"ocean">>, <<"poem">> }

\* one search: a query, a count, and a Jamendo client id configured or not
InitSearch ==
    /\ PipelineInit({})
    /\ \E q \in Queries, n \in 0..MaxCount, configured \in BOOLEAN :
          call = [fn |-> "search_audio", query |-> q, count |-> n,
                  configured |-> configured, done |-> FALSE,
                  jamendo |-> "pending", ret |-> <<>>]

\* AudioService.search_audio(query, count)
SearchAudio ==
    /\ call.fn = "search_audio" /\ ~call.done
    /\ \E outcome \in {"raise", "failed", "ok"}, results \in JamendoResponses :
          LET jamendo_audio == IF call.configured
                                   THEN SearchJamendo(outcome, results)
                                   ELSE <<>>
              needed == call.count - Len(jamendo_audio)
          IN  /\ call.configured \/ (outcome = "ok" /\ results = <<>>)
              /\ outcome # "ok" => results = <<>>
              /\ \E curated_audio \in
                        IF Len(jamendo_audio) < call.count
                            THEN CuratedAudio(call.query, needed)
                            ELSE { <<>> } :
                    call' = [call EXCEPT
                               !.done = TRUE,
                               !.jamendo = IF ~call.configured THEN "unconfigured"
                                           ELSE IF outcome # "ok" THEN outcome
                                           ELSE IF \E i \in 1..Len(results) :
                                                      results[i] = "noid"
                                                THEN "raise"
                                           ELSE "ok",
                               !.ret = SliceTo(jamendo_audio \o curated_audio,
                                               call.count)]
    /\ UNCHANGED pipeline

NextSearch == SearchAudio

SpecSearch == InitSearch /\ [][NextSearch]_vars

\* ------------------------------------------------- stock provider credential
\* A URL is a record of scheme, host, path and query; a component is one
\* token.  The components below are those that have 'pexels.com' inside.
HasProviderName(component) ==
    component \in {"pexels.com", "videos.pexels.com", "pexels.com.evil.net",
                   "pexels.com/v.mp4", "ref=pexels.com"}

\* 'pexels.com' in url
MentionsProvider(url) ==
    HasProviderName(url.host) \/ HasProviderName(url.path)
        \/ HasProviderName(url.query)

\* the host is the provider's domain or a subdomain of it
ProviderHost(host) == host \in {"pexels.com", "videos.pexels.com"}

UrlSchemes == {"https:", "http:", "none"}
UrlHosts == {"pexels.com", "videos.pexels.com", "pexels.com.evil.net",
             "cdn.example", "evil.example"}
UrlPaths == {"v.mp4", "pexels.com/v.mp4"}
UrlQueries == {"none", "ref=pexels.com"}

\* url.startswith('http')
HttpUrl(url) == url.scheme \in {"https:", "http:"}

\* a URL handed to create_story_video as video_url or to /proxy-media
InitFetch ==
    /\ PipelineInit({})
    /\ \E s \in UrlSchemes, h \in UrlHosts, pa \in UrlPaths, q \in UrlQueries,
          route \in {"create_story_video", "proxy_media"},
          key_set \in BOOLEAN :
          call = [fn |-> "fetch", route |-> route, key_set |-> key_set,
                  url |-> [scheme |-> s, host |-> h, path |-> pa, query |-> q],
                  done |-> FALSE, requested |-> FALSE, authorization |-> FALSE]

\* create_story_video: a URL starting with 'http' is requested, with the
\* Authorization header when 'pexels.com' is in it; any other reference is
\* opened as a local file
FetchBackground ==
    /\ call.fn = "fetch" /\ call.route = "create_story_video" /\ ~call.done
    /\ call' = [call EXCEPT
                   !.done = TRUE,
                   !.requested = HttpUrl(call.url),
                   !.authorization = /\ HttpUrl(call.url)
                                     /\ MentionsProvider(call.url)
                                     /\ call.key_set]
    /\ UNCHANGED pipeline

\* proxy_media: requests.get(url, headers=headers, stream=True); a URL
\* without scheme makes requests raise before anything is sent
ProxyMedia ==
    /\ call.fn = "fetch" /\ call.route = "proxy_media" /\ ~call.done
    /\ call' = [call EXCEPT
                   !.done = TRUE,
                   !.requested = HttpUrl(call.url),
                   !.authorization = /\ HttpUrl(call.url)
                                     /\ MentionsProvider(call.url)
                                     /\ call.key_set]
    /\ UNCHANGED pipeline

NextFetch == FetchBackground \/ ProxyMedia

SpecFetch == InitFetch /\ [][NextFetch]_vars

\* ------------------------------------------------------------ batch processor
\* The sheet is the list of its records (the rows under the header row), a
\* record being its poem text, status and generated file.
MaxRows == 3
MaxPoemsArg == 2

PoemTexts == {"a", "b"}
RowStatuses == {"Pending", "Completed"}
NoFile == "none"
SheetRows == [text : PoemTexts, status : RowStatuses, file : {NoFile}]
Sheets == UNION { [1..n -> SheetRows] : n \in 0..MaxRows }

\* the attributes class Config defines
ConfigAttributes ==
    {"SECRET_KEY", "OPENAI_API_KEY", "PEXELS_API_KEY", "JAMENDO_CLIENT_ID",
     "GOOGLE_SHEETS_CREDENTIALS", "INSTAGRAM_ACCESS_TOKEN",
     "INSTAGRAM_BUSINESS_ACCOUNT_ID", "UPLOAD_FOLDER", "TEMP_FOLDER",
     "DEFAULT_VIDEO_DURATION", "DEFAULT_FONT_SIZE", "DEFAULT_TEXT_COLOR",
     "SUPPORTED_VIDEO_FORMATS", "SUPPORTED_AUDIO_FORMATS"}

\* record.get('Status', '').lower() == 'pending'
IsPending(row) == row.status = "Pending"

\* the positions in the sheet of the pending records, in sheet order
RECURSIVE PendingRowsFrom(_, _)
PendingRowsFrom(sheet, k) ==
    IF k > Len(sheet) THEN <<>>
    ELSE (IF IsPending(sheet[k]) THEN <<k>> ELSE <<>>)
            \o PendingRowsFrom(sheet, k + 1)

PendingRows(sheet) == PendingRowsFrom(sheet, 1)

\* get_pending_poems: the pending records themselves
get_pending_poems(sheet) ==
    [j \in 1..Len(PendingRows(sheet)) |-> sheet[PendingRows(sheet)[j]]]

\* pending_poems.index(poem): the first position holding an equal record
\* (counted from 1 here, from 0 in the source)
IndexOf(pending, poem) ==
    CHOOSE j \in 1..Len(pending) :
        /\ pending[j] = poem
        /\ \A i \in 1..(j - 1) : pending[i] # poem

\* pending_poems[:max_poems]
PoemsToProcess(pending, max_poems) == SubSeq(pending, 1, Min(max_poems, Len(pending)))

\* how one pass of the loop body ends: create_story_video returned True,
\* returned False, or something raised.  os.path.join(Config.OUTPUT_FOLDER,
\* ...) is evaluated before create_story_video is called and raises
\* AttributeError when Config has no such attribute.
IterationOutcomes ==
    IF "OUTPUT_FOLDER" \in ConfigAttributes
       THEN {"Completed", "Failed", "raised"}
       ELSE {"raised"}

\* update_poem_status(row_index, status, generated_file): writes column G
\* (and H) of sheet row row_index + 2, that is of record row_index + 1
update_poem_status(sheet, record, status, file) ==
    IF record \in 1..Len(sheet)
       THEN [sheet EXCEPT ![record] =
                [@ EXCEPT !.status = status,
                          !.file = IF file # NoFile THEN file ELSE @]]
       ELSE sheet

InitBatch ==
    /\ PipelineInit({})
    /\ \E sheet \in Sheets, max_poems \in 1..MaxPoemsArg :
          call = [fn |-> "batch", sheet0 |-> sheet, sheet |-> sheet,
                  max_poems |-> max_poems, pc |-> "start",
                  pending |-> <<>>, i |-> 0, successful |-> 0, failed |-> 0,
                  updates |-> <<>>]

\* process_pending_poems up to the loop: read the pending records, return
\* when there are none
GetPending ==
    /\ call.fn = "batch" /\ call.pc = "start"
    /\ LET pending == get_pending_poems(call.sheet)
       IN  call' = [call EXCEPT !.pending = pending,
                                !.i = 1,
                                !.pc = IF pending = <<>> THEN "returned"
                                                         ELSE "loop"]
    /\ UNCHANGED pipeline

\* one pass of the loop body for poems_to_process[i]; the update of the
\* sheet may fail inside update_poem_status, which then returns False
ProcessPoem ==
    /\ call.fn = "batch" /\ call.pc = "loop"
    /\ call.i <= Len(PoemsToProcess(call.pending, call.max_poems))
    /\ \E outcome \in IterationOutcomes, wrote \in BOOLEAN :
          LET poem == PoemsToProcess(call.pending, call.max_poems)[call.i]
              status == IF outcome = "Completed" THEN "Completed" ELSE "Failed"
              file == IF outcome = "Completed" THEN "batch_story.mp4" ELSE NoFile
              record == IndexOf(call.pending, poem)
          IN  call' = [call EXCEPT
                          !.sheet = IF wrote
                                       THEN update_poem_status(@, record, status, file)
                                       ELSE @,
                          !.updates = Append(@, [poem |-> call.i, record |-> record,
                                                 status |-> status, wrote |-> wrote]),
                          !.successful = IF outcome = "Completed" THEN @ + 1 ELSE @,
                          !.failed = IF outcome = "Completed" THEN @ ELSE @ + 1,
                          !.i = @ + 1]
    /\ UNCHANGED pipeline

\* the loop is over: print the totals and return
FinishBatch ==
    /\ call.fn = "batch" /\ call.pc = "loop"
    /\ call.i > Len(PoemsToProcess(call.pending, call.max_poems))
    /\ call' = [call EXCEPT !.pc = "returned"]
    /\ UNCHANGED pipeline

NextBatch == GetPending \/ ProcessPoem \/ FinishBatch

SpecBatch == InitBatch /\ [][NextBatch]_vars

\* ------------------------------------------------------------- font detection
\* A font path is <<directory, kind, number>>: directory 0 holds the bundled
\* fonts, directories 1..FontDirectories are font_directories in order; kind
\* tells whether the file name has one of the preferred keywords.
FontLimit == 15
BundledFonts == 2
FontDirectories == 8
MaxRegularFonts == 14

RangeOf(s) == { s[k] : k \in 1..Len(s) }

\* `if os.path.exists(font_path): available_fonts.append(font_path)`
BundledFound(present) ==
    (IF 1 \in present THEN << <<0, "bundled", 1>> >> ELSE <<>>)
        \o (IF 2 \in present THEN << <<0, "bundled", 2>> >> ELSE <<>>)

\* priority_fonts + regular_fonts of a directory holding np files with a
\* preferred keyword and nr others
Listing(d, np, nr) ==
    [k \in 1..np |-> <<d, "priority", k>>] \o [k \in 1..nr |-> <<d, "regular", k>>]

\* for font_file in priority_fonts + regular_fonts:
\*     if font_file not in available_fonts:
\*         available_fonts.append(font_file)
\*         if len(available_fonts) >= 15: break
RECURSIVE AddFonts(_, _)
AddFonts(available, fonts) ==
    IF fonts = <<>> THEN available
    ELSE IF Head(fonts) \in RangeOf(available)
            THEN AddFonts(available, Tail(fonts))
    ELSE LET longer == Append(available, Head(fonts))
         IN  IF Len(longer) >= FontLimit THEN longer
             ELSE AddFonts(longer, Tail(fonts))

InitFonts ==
    /\ PipelineInit({})
    /\ call = [fn |-> "fonts", pc |-> "bundled", d |-> 0, available |-> <<>>,
               first |-> <<>>]

\* the loop over bundled_fonts
ScanBundled ==
    /\ call.fn = "fonts" /\ call.pc = "bundled"
    /\ \E present \in SUBSET (1..BundledFonts) :
          call' = [call EXCEPT !.available = BundledFound(present),
                               !.pc = "dirs", !.d = 1]
    /\ UNCHANGED pipeline

\* one directory of font_directories: skipped when it does not exist or
\* when globbing raises; otherwise its fonts are added.  A directory after
\* the first may lie inside the first ('/usr/share/fonts/truetype' inside
\* '/usr/share/fonts'), and then the recursive glob of the first has already
\* listed its files, under the same paths.
ScanDir ==
    /\ call.fn = "fonts" /\ call.pc = "dirs"
    /\ call.d <= FontDirectories
    /\ \E exists \in BOOLEAN, raised \in BOOLEAN, nested \in BOOLEAN,
          np \in 0..1, nr \in {0, MaxRegularFonts} :
          LET fonts == IF nested /\ call.d > 1 THEN call.first
                       ELSE Listing(call.d, np, nr)
              scanned == exists /\ ~raised
          IN  call' = [call EXCEPT
                          !.available = IF scanned THEN AddFonts(@, fonts) ELSE @,
                          !.first = IF call.d = 1 /\ scanned THEN fonts ELSE @,
                          !.d = @ + 1]
    /\ UNCHANGED pipeline

\* return available_fonts
ReturnFonts ==
    /\ call.fn = "fonts" /\ call.pc = "dirs"
    /\ call.d > FontDirectories
    /\ call' = [call EXCEPT !.pc = "returned"]
    /\ UNCHANGED pipeline

NextFonts == ScanBundled \/ ScanDir \/ ReturnFonts

SpecFonts == InitFonts /\ [][NextFonts]_vars

\* ------------------------------------------------- temp folder: cleanup rule
\* An entry of the temp folder: a regular file or a directory, the age of its
\* mtime in seconds, and whether os.unlink on it raises.
MaxAge == 3601
StaleAfter == 3600

Ages == {10, StaleAfter, MaxAge}

ShouldCleanFromTheHour(entry) == entry.kind = "file" /\ entry.age >= StaleAfter

\* `if os.path.isfile(file_path): if current_time - os.path.getmtime(file_path) > 3600`
ShouldClean(entry) == entry.kind = "file" /\ entry.age > StaleAfter

\* --------------------------------------------------------- /download/<filename>
\* One generated file of MaxChunks chunks of 8192 bytes, the requests of
\* Downloaders for it, and cleanup_old_temp_files running beside them.  A
\* file that a request has opened stays readable after it is unlinked.
MaxChunks == 2
Downloaders == {1, 2}

\* position of a request:
\*   "idle"      not yet made
\*   "404"       answered 404
\*   "accepted"  download_file returned the 200 response, generator not started
\*   "streaming" the generator has opened the file
\*   "complete"  every chunk sent, `finally` done
\*   "aborted"   the client went away, the generator was closed
\*   "broken"    the generator raised after the 200 response had begun
InitDownload ==
    /\ PipelineInit({})
    /\ \E present \in BOOLEAN, age \in Ages :
          call = [fn |-> "download", present |-> present, age |-> age,
                  dl |-> [d \in Downloaders |-> [pc |-> "idle", sent |-> 0]],
                  unlinks |-> 0, cleanups |-> 0]

\* download_file: 404 when the file does not exist, else the streaming
\* response with Content-Length
DownloadRequest(d) ==
    /\ call.fn = "download" /\ call.dl[d].pc = "idle"
    /\ call' = [call EXCEPT !.dl[d].pc = IF call.present THEN "accepted" ELSE "404"]
    /\ UNCHANGED pipeline

\* first step of generate_and_cleanup: open(file_path, 'rb'); when the file
\* is gone it raises, `finally` runs (its unlink raises and is caught) and
\* the exception leaves the generator
DownloadOpen(d) ==
    /\ call.fn = "download" /\ call.dl[d].pc = "accepted"
    /\ call' = [call EXCEPT !.dl[d].pc = IF call.present THEN "streaming" ELSE "broken"]
    /\ UNCHANGED pipeline

\* f.read(8192); yield chunk
DownloadChunk(d) ==
    /\ call.fn = "download" /\ call.dl[d].pc = "streaming"
    /\ call.dl[d].sent < MaxChunks
    /\ call' = [call EXCEPT !.dl[d].sent = @ + 1]
    /\ UNCHANGED pipeline

\* `finally: try: os.unlink(file_path) except: ...`
UnlinkAfterStream(unlinked) ==
    [call EXCEPT !.present = IF unlinked THEN FALSE ELSE @,
                 !.unlinks = IF call.present /\ unlinked THEN @ + 1 ELSE @]

\* read returns no chunk: leave the loop, run `finally`
DownloadFinish(d) ==
    /\ call.fn = "download" /\ call.dl[d].pc = "streaming"
    /\ call.dl[d].sent = MaxChunks
    /\ \E unlinked \in BOOLEAN :
          /\ unlinked => call.present
          /\ call' = [UnlinkAfterStream(unlinked) EXCEPT !.dl[d].pc = "complete"]
    /\ UNCHANGED pipeline

\* the client goes away: the server closes the generator.  A generator
\* that was started runs its `finally`; one that was never started runs
\* nothing.
DownloadAbort(d) ==
    /\ call.fn = "download" /\ call.dl[d].pc \in {"accepted", "streaming"}
    /\ call.dl[d].sent < MaxChunks
    /\ \E unlinked \in BOOLEAN :
          /\ unlinked => (call.present /\ call.dl[d].pc = "streaming")
          /\ call' = [UnlinkAfterStream(unlinked) EXCEPT !.dl[d].pc = "aborted"]
    /\ UNCHANGED pipeline

\* cleanup_old_temp_files reaching the file (GET / or POST /cleanup-temp)
CleanupBeside ==
    /\ call.fn = "download" /\ call.cleanups < 1
    /\ \E unlinked \in BOOLEAN :
          /\ unlinked => (call.present /\ ShouldClean([kind |-> "file", age |-> call.age]))
          /\ call' = [call EXCEPT !.present = IF unlinked THEN FALSE ELSE @,
                                  !.cleanups = @ + 1]
    /\ UNCHANGED pipeline

NextDownload ==
    \/ \E d \in Downloaders :
          \/ DownloadRequest(d)
          \/ DownloadOpen(d)
          \/ DownloadChunk(d)
          \/ DownloadFinish(d)
          \/ DownloadAbort(d)
    \/ CleanupBeside

SpecDownload == InitDownload /\ [][NextDownload]_vars

\* ------------------------------------------------------ cleanup_old_temp_files
\* The temp folder as os.listdir returns it: a list of entries, each a
\* regular file or a directory with the age of its mtime, and whether
\* os.unlink on it raises (`locked`).
MaxEntries == 3

FolderEntries == [kind : {"file", "dir"}, age : Ages, locked : BOOLEAN]
Folders == UNION { [1..n -> FolderEntries] : n \in 0..MaxEntries }

InitCleanup ==
    /\ PipelineInit({})
    /\ \E folder \in Folders :
          call = [fn |-> "cleanup", folder |-> folder, pc |-> "start", i |-> 0,
                  deleted |-> {}, failed |-> {}, stopped |-> FALSE]

\* temp_dir = ...; current_time = time.time(); os.listdir(temp_dir): when it
\* raises, the outer handler prints and the function returns
CleanupList ==
    /\ call.fn = "cleanup" /\ call.pc = "start"
    /\ \E listed \in BOOLEAN :
          call' = [call EXCEPT !.pc = IF listed THEN "loop" ELSE "returned",
                               !.stopped = ~listed,
                               !.i = 1]
    /\ UNCHANGED pipeline

\* one pass of the loop: isfile, getmtime, age test, unlink in its own try.
\* getmtime raises when the file has gone since listdir; that lands in the
\* outer handler and ends the loop.
CleanupEntry ==
    /\ call.fn = "cleanup" /\ call.pc = "loop"
    /\ call.i <= Len(call.folder)
    /\ LET entry == call.folder[call.i]
       IN  \E gone \in BOOLEAN :
              /\ gone => entry.kind = "file"
              /\ call' =
                   IF gone
                      THEN [call EXCEPT !.pc = "returned", !.stopped = TRUE]
                   ELSE IF ShouldClean(entry) /\ ~entry.locked
                      THEN [call EXCEPT !.deleted = @ \cup {call.i}, !.i = @ + 1]
                   ELSE IF ShouldClean(entry)
                      THEN [call EXCEPT !.failed = @ \cup {call.i}, !.i = @ + 1]
                   ELSE [call EXCEPT !.i = @ + 1]
    /\ UNCHANGED pipeline

\* the loop is over
CleanupReturn ==
    /\ call.fn = "cleanup" /\ call.pc = "loop"
    /\ call.i > Len(call.folder)
    /\ call' = [call EXCEPT !.pc = "returned"]
    /\ UNCHANGED pipeline

NextCleanup == CleanupList \/ CleanupEntry \/ CleanupReturn

SpecCleanup == InitCleanup /\ [][NextCleanup]_vars

\* ------------------------------------------------------------------ helpers
Returned(p) == pc[p] \in {"done", "responded"}

AllThreeRaised(p) ==
    /\ Len(attempts[p]) = 3
    /\ \A i \in 1..3 : ~attempts[p][i].ok

SomeAttemptOk(p) == \E i \in 1..Len(attempts[p]) : attempts[p][i].ok

\* text that is empty once stripped
BlankText(t) == Strip(t) = <<>>

IsBlackStoryClip(clip, d) ==
    /\ clip.kind = "color"
    /\ clip.w = 1080
    /\ clip.h = 1920
    /\ clip.duration = d

\* ------------------------------------------------------------------- claims

\* C1: after create_story_video has returned (True or False), none of the
\* temporary files created during the call (downloaded video, downloaded
\* audio, encoder scratch audio) still exists.
C1_NoTempFileRemains ==
    \A p \in Procs : Returned(p) => created[p] \cap files = {}

\* C2 as stated: whenever the acquisition of a given video_url failed, the
\* call has encoded an output file by the time it returns.
C2_FailedAcquisitionStillEncodes ==
    \A p \in Procs :
        (trace[p].video = "failed" /\ Returned(p)) => OutputPath(p) \in files

\* C2 amended: whenever the acquisition of a given video_url failed, the
\* background used from then on is the 1080x1920 black clip of the requested
\* duration, every frame handed to the encoder is 1080x1920, the encoder is
\* reached, and an output file exists on return unless all three attempts
\* raised.
C2_FallbackOnFailedAcquisition ==
    \A p \in Procs :
        trace[p].video = "failed" =>
            /\ IsBlackStoryClip(video_clip[p], req[p].duration)
            /\ \A i \in 1..Len(attempts[p]) :
                  /\ attempts[p][i].w = 1080
                  /\ attempts[p][i].h = 1920
                  /\ attempts[p][i].duration = req[p].duration
            /\ Returned(p) => Len(attempts[p]) >= 1
            /\ (Returned(p) /\ ~AllThreeRaised(p)) => OutputPath(p) \in files

C2_Witness ==
    \E p \in Procs :
        /\ trace[p].video = "failed"
        /\ req[p].video_url = <<"https:", "cdn", "v.mp4">>
        /\ Returned(p)
        /\ OutputPath(p) \in files

\* C3: the write attempts are made in the order 1 (24 fps, audio as
\* composited), 2 (audio dropped), 3 (15 fps, ultrafast); every attempt but
\* the last one made has raised, so none follows a success; and when all
\* three raised the call returns False.
C3_EncoderLadder ==
    \A p \in Procs :
        LET a == attempts[p] IN
        /\ Len(a) <= 3
        /\ \A i \in 1..Len(a) :
              /\ a[i].k = i
              /\ i < Len(a) => ~a[i].ok
        /\ Len(a) >= 1 => (a[1].fps = 24 /\ a[1].audio = (video_clip[p].audio # <<>>))
        /\ Len(a) >= 2 => (a[2].audio = FALSE)
        /\ Len(a) >= 3 => (a[3].fps = 15 /\ a[3].preset = "ultrafast")
        /\ pc[p] \in {"enc2", "enc3"} => (Len(a) >= 1 /\ ~a[Len(a)].ok)
        /\ pc[p] = "enc2" => Len(a) = 1
        /\ pc[p] = "enc3" => Len(a) = 2
        /\ (Returned(p) /\ AllThreeRaised(p)) => result[p] = "False"

C3_Witness ==
    \E p \in Procs : Returned(p) /\ AllThreeRaised(p) /\ result[p] = "False"

\* C4: once the background is ready, the call returns False only if all
\* three encode attempts raised.
C4_FailureOnlyFromEncoder ==
    \A p \in Procs :
        (trace[p].ready /\ result[p] = "False") => AllThreeRaised(p)

\* C5: in attempt 3, when the background is wider or taller than 1920, the
\* background and the text layer are scaled by the same factor and the
\* written frame has its long edge at most 1920.
C5_Attempt3Downscale ==
    \A p \in Procs :
        \A i \in 1..Len(attempts[p]) :
            LET a == attempts[p][i] IN
            (a.k = 3 /\ (video_clip[p].w > 1920 \/ video_clip[p].h > 1920)) =>
                /\ a.bgScale[1] * a.textScale[2] = a.textScale[1] * a.bgScale[2]
                /\ a.w <= 1920
                /\ a.h <= 1920

\* C6 as stated: an audio source that reports a duration <= 0 leaves the
\* render successful.
C6_InvalidAudioRenderSucceeds ==
    \A p \in Procs :
        (trace[p].audio = "ok" /\ trace[p].audioDur <= 0 /\ Returned(p))
            => result[p] = "True"

\* C6 amended: audio is attached only when the source duration is strictly
\* positive, the attached duration is positive and at most the requested
\* duration, a source with duration <= 0 is in no clip that is composited or
\* written, and after such a source the call still reaches the encoder and
\* leaves an output file unless all three attempts raised.
C6_AudioAttachment ==
    \A p \in Procs :
        /\ video_clip[p].audio # <<>> =>
              /\ trace[p].audio = "ok"
              /\ trace[p].audioDur > 0
              /\ video_clip[p].audio[1] > 0
              /\ video_clip[p].audio[1] <= req[p].duration
        /\ final_clip[p].audio # <<>> => final_clip[p].audio = video_clip[p].audio
        /\ (trace[p].audio = "ok" /\ trace[p].audioDur <= 0) =>
              /\ video_clip[p].audio = <<>>
              /\ final_clip[p].audio = <<>>
              /\ \A i \in 1..Len(attempts[p]) : ~attempts[p][i].audio
              /\ Returned(p) => Len(attempts[p]) >= 1
              /\ (Returned(p) /\ ~AllThreeRaised(p)) => OutputPath(p) \in files

C6_Witness ==
    \E p \in Procs :
        /\ trace[p].audio = "ok"
        /\ trace[p].audioDur <= 0
        /\ Returned(p)
        /\ result[p] = "True"
        /\ OutputPath(p) \in files

\* C7: a request whose text is empty once normalized is rejected before
\* create_story_video is entered: no rendering step, no file touched.
C7_BlankTextRejected ==
    \A p \in Procs :
        (pc[p] # "idle" /\ BlankText(req[p].text)) =>
            /\ pc[p] = "rejected"
            /\ response[p] = 400
            /\ attempts[p] = <<>>
            /\ \A a \in access : a[1] # p

\* C8: every call of create_story_video that is entered comes back with True
\* or False; no exception leaves it.
C8_AlwaysReturns ==
    \A p \in Procs :
        (pc[p] = "acquire") ~> (pc[p] = "done" /\ result[p] \in {"True", "False"})

C8_Witness ==
    \E p \in Procs :
        /\ pc[p] = "done"
        /\ result[p] = "False"
        /\ trace[p].video = "failed"
        /\ trace[p].audio = "failed"
        /\ AllThreeRaised(p)
        /\ temp_video_path[p] \in files

\* C9: from the dimension check on (text sizing, compositing, encoding) the
\* background has width > 0 and height > 0; an opened source that reported a
\* zero or negative width or height, or that has no width / height at all,
\* has been replaced by the 1080x1920 black clip; and the dimension check
\* itself always continues to the text layer, never to the failure handler.
C9_PositiveDimensions ==
    /\ [](\A p \in Procs :
            /\ trace[p].ready => (video_clip[p].w > 0 /\ video_clip[p].h > 0)
            /\ pc[p] \in {"text", "composite"} =>
                  (video_clip[p].w > 0 /\ video_clip[p].h > 0)
            /\ (trace[p].ready /\ trace[p].video = "ok"
                  /\ ~(trace[p].dims[1] > 0 /\ trace[p].dims[2] > 0)) =>
                     IsBlackStoryClip(video_clip[p], req[p].duration)
            /\ (trace[p].ready /\ trace[p].videoFail = "attr") =>
                     IsBlackStoryClip(video_clip[p], req[p].duration))
    /\ [][\A p \in Procs : pc[p] = "dimcheck" => pc'[p] \in {"dimcheck", "text"}]_vars

C9_Witness ==
    \E p \in Procs :
        /\ trace[p].video = "ok"
        /\ trace[p].dims = <<1080, -1>>
        /\ pc[p] = "composite"
        /\ video_clip[p].h = 1920

\* C10: no file path is read or written by two different invocations.
C10_NoSharedPath ==
    \A a \in access : \A b \in access : a[2] = b[2] => a[1] = b[1]


\* C11: clean_text_preserving_line_breaks is idempotent: cleaning a text
\* that was already cleaned gives back the same text, for every input
\* (the placeholder "No text provided" included).
C11_CleanIdempotent ==
    (call.fn = "clean_text_preserving_line_breaks" /\ Len(call.ret) = 2)
        => call.ret[2] = call.ret[1]

\* a text with a run of blanks and a run of empty lines, which the first
\* cleaning changed and the second left alone
C11_Witness ==
    /\ call.fn = "clean_text_preserving_line_breaks"
    /\ Len(call.ret) = 2
    /\ call.ret[1] # call.text
    /\ call.ret[1] # NoTextProvided
    /\ call.ret[2] = call.ret[1]
    /\ \E i \in 1..(Len(call.text) - 1) :
          call.text[i] \in Whitespace /\ call.text[i + 1] \in Whitespace

\* C12: n lines of height h laid out in a text area of height H: the first
\* line is at max(0, (H - n*h) div 2), line i at startY + i*h, and when
\* n*h <= H no line's y + h exceeds H.
C12_VerticalCentering ==
    (call.fn = "layout" /\ call.done) =>
        LET n == call.n
            h == call.line_height
            H == call.text_height
            startY == IF (H - n * h) \div 2 > 0 THEN (H - n * h) \div 2 ELSE 0
        IN  /\ Len(call.ys) = n
            /\ \A i \in 0..(n - 1) : call.ys[i + 1] = startY + i * h
            /\ n * h <= H => \A i \in 0..(n - 1) : call.ys[i + 1] + h <= H

\* several lines that fit and are centred with room above the first one
C12_Witness ==
    /\ call.fn = "layout" /\ call.done
    /\ call.n >= 2
    /\ call.n * call.line_height <= call.text_height
    /\ call.ys[1] > 0
    /\ call.ys[call.n] + call.line_height <= call.text_height

\* C13: every line the wrapping step produces (process_text_lines for the
\* preview, textwrap.wrap for the video) is at most as wide, in pixels of
\* the font in use, as the text area; lines of at most 40 characters kept
\* unwrapped and lines wrapped at the minimum budget included.
C13_WrapWidthBound ==
    (call.fn = "wrap" /\ call.done) =>
        \A i \in 1..Len(call.lines) :
            LineChars(call.lines[i]) * call.advance10 <= call.area * 10

\* a seven-character string: '#' and six hex digits
WellFormedHex(s) ==
    /\ Len(s) = 7
    /\ s[1] = "#"
    /\ \A k \in 2..7 : s[k] \in HexDigits

\* C14: color resolution never raises and never aborts or degrades the
\* text layer; an unknown name or a malformed hex value (wrong length,
\* non-hex digits, only '#') resolves to white (255, 255, 255).
C14_ColorNeverFails ==
    (call.fn = "color" /\ call.done) =>
        /\ ~call.raised
        /\ call.outcome \in {"image", "text"}
        /\ (StartsWithHash(call.text_color) /\ ~WellFormedHex(call.text_color))
               => call.rgb = <<255, 255, 255>>
        /\ (~StartsWithHash(call.text_color)
                /\ \A n \in {"white", "black", "red", "green", "blue",
                             "yellow", "cyan", "magenta"} :
                      call.text_color # <<n>> /\ call.text_color # <<"RED">>)
               => call.rgb = <<255, 255, 255>>

\* what the rest of a call reads once the audio stage is over
RenderInputs(p) ==
    <<video_clip[p], text_clip[p], final_clip[p], req[p].text, req[p].duration,
      temp_video_path[p], attempts[p], result[p], response[p]>>

\* C15: when an audio reference is given and its acquisition fails (network
\* error, non-2xx status, broken stream, decode failure), the call goes on
\* without audio: the failing step hands the composite stage exactly what
\* the no-audio-reference branch hands it, no clip and no encode attempt
\* of the call carries audio, and the call ends as a call without audio
\* reference does (True once an attempt succeeded and the clips closed).
C15_FailedAudioIsNoAudio ==
    /\ [][\A p \in Procs :
            (pc[p] = "audio" /\ trace'[p].audio = "failed") =>
                /\ pc'[p] = "composite"
                /\ RenderInputs(p)' = RenderInputs(p)
                /\ video_clip'[p].audio = <<>>]_vars
    /\ [](\A p \in Procs :
            trace[p].audio = "failed" =>
                /\ video_clip[p].audio = <<>>
                /\ final_clip[p] # NoClip => final_clip[p].audio = <<>>
                /\ \A i \in 1..Len(attempts[p]) : ~attempts[p][i].audio
                /\ (result[p] = "True") =>
                       \E i \in 1..Len(attempts[p]) : attempts[p][i].ok)

\* a remote audio reference whose download broke, and the call returned
\* True from a first attempt that wrote a file without audio
C15_Witness ==
    \E p \in Procs :
        /\ GivenRef(req[p].audio_url)
        /\ trace[p].audio = "failed"
        /\ trace[p].audioFail = "stream"
        /\ result[p] = "True"
        /\ attempts[p][1].ok
        /\ ~attempts[p][1].audio

\* C16: the composited clip handed to the encoder has exactly the
\* requested duration whatever the background (longer and trimmed,
\* shorter, or the fallback clip), every encode attempt writes a clip of
\* that duration, and once trimmed the background is never longer than
\* the request.
C16_CompositeDuration ==
    \A p \in Procs :
        /\ final_clip[p] # NoClip => final_clip[p].duration = req[p].duration
        /\ \A i \in 1..Len(attempts[p]) :
              attempts[p][i].duration = req[p].duration
        /\ pc[p] \in {"dimcheck", "text", "audio", "composite",
                      "enc1", "enc2", "enc3", "close", "cleanup"}
              => video_clip[p].duration <= req[p].duration

\* a decoded background longer than the request, trimmed to it, under a
\* composite of the requested duration that an attempt has encoded
C16_Witness ==
    \E p \in Procs :
        /\ video_clip[p].kind = "file"
        /\ video_clip[p].duration = req[p].duration
        /\ final_clip[p] # NoClip
        /\ final_clip[p].duration = req[p].duration
        /\ Len(attempts[p]) >= 1

\* C17: search_audio returns at most count entries, each with the keys
\* title, artist, source, duration and url, with the Jamendo entries before
\* the curated ones; when Jamendo is not configured or fails and count is
\* at most 6, it returns exactly count entries.
C17_SearchAudioContract ==
    (call.fn = "search_audio" /\ call.done) =>
        /\ Len(call.ret) <= call.count
        /\ \A i \in 1..Len(call.ret) :
              /\ {"title", "artist", "source", "duration", "url"}
                     \subseteq DOMAIN call.ret[i]
              /\ call.ret[i].source \in {"jamendo", "bensound"}
        /\ \A i, j \in 1..Len(call.ret) :
              (i < j /\ call.ret[j].source = "jamendo")
                  => call.ret[i].source = "jamendo"
        /\ (call.jamendo \in {"unconfigured", "raise", "failed"} /\ call.count <= 6)
               => Len(call.ret) = call.count

\* Jamendo gave fewer tracks than asked for and curated ones fill the rest
C17_Witness ==
    /\ call.fn = "search_audio" /\ call.done
    /\ call.jamendo = "ok"
    /\ Len(call.ret) = call.count
    /\ call.count >= 3
    /\ call.ret[1].source = "jamendo"
    /\ call.ret[call.count].source = "bensound"

\* C18 as stated: encode attempt 2 uses the video settings of attempt 1
\* (same frame rate, same codec, same bitrate setting) and differs from it
\* only in that the audio track is dropped.
C18_Attempt2SameSettings ==
    \A p \in Procs :
        Len(attempts[p]) >= 2 =>
            /\ attempts[p][2].fps = attempts[p][1].fps
            /\ attempts[p][2].codec = attempts[p][1].codec
            /\ attempts[p][2].bitrate = attempts[p][1].bitrate
            /\ attempts[p][2].preset = attempts[p][1].preset
            /\ ~attempts[p][2].audio

\* C18 amended: attempt 2 keeps the frame rate, codec, preset, frame size
\* and duration of attempt 1, drops the audio track, and sets the bitrate
\* to 2000k where attempt 1 leaves the encoder's default.
C18_Attempt2LowerBitrate ==
    \A p \in Procs :
        Len(attempts[p]) >= 2 =>
            /\ attempts[p][2].fps = attempts[p][1].fps
            /\ attempts[p][2].codec = attempts[p][1].codec
            /\ attempts[p][2].preset = attempts[p][1].preset
            /\ attempts[p][2].w = attempts[p][1].w
            /\ attempts[p][2].h = attempts[p][1].h
            /\ attempts[p][2].duration = attempts[p][1].duration
            /\ ~attempts[p][2].audio
            /\ attempts[p][1].bitrate = "default"
            /\ attempts[p][2].bitrate = "2000k"

\* a first attempt with audio raised and the second wrote a silent file
C18_Witness ==
    \E p \in Procs :
        /\ Len(attempts[p]) = 2
        /\ attempts[p][1].audio
        /\ ~attempts[p][1].ok
        /\ ~attempts[p][2].audio
        /\ attempts[p][2].ok

\* the characters of a line of chunks that are not whitespace, in order
RECURSIVE LineLetters(_)
LineLetters(line) ==
    IF line = <<>> THEN <<>>
    ELSE IF Head(line).ws THEN LineLetters(Tail(line))
    ELSE [k \in 1..Head(line).len |-> Head(line).tok] \o LineLetters(Tail(line))

RECURSIVE LinesLetters(_)
LinesLetters(lines) ==
    IF lines = <<>> THEN <<>>
    ELSE LineLetters(Head(lines)) \o LinesLetters(Tail(lines))

\* the laid-out lines follow the line breaks of the text: an empty line of
\* the text is one empty laid-out line, and every other line of the text
\* is spread over one or more laid-out lines of its own
RECURSIVE LinesFollow(_, _)
LinesFollow(laid_out, text_lines) ==
    IF text_lines = <<>> THEN laid_out = <<>>
    ELSE IF Head(text_lines) = <<>>
        THEN /\ laid_out # <<>>
             /\ Head(laid_out) = <<>>
             /\ LinesFollow(Tail(laid_out), Tail(text_lines))
    ELSE \E k \in 1..Len(laid_out) :
            /\ \A i \in 1..k : laid_out[i] # <<>>
            /\ LinesLetters(SubSeq(laid_out, 1, k))
                   = LineLetters(Chunks(Head(text_lines)))
            /\ LinesFollow(SubSeq(laid_out, k + 1, Len(laid_out)),
                           Tail(text_lines))

\* C19: the text laid out into the video keeps the line breaks of the
\* poem: words separated by a line break are on different lines, and a
\* blank line between stanzas stays one empty line of the layout.
C19_VideoKeepsLineBreaks ==
    (call.fn = "wrap" /\ call.path = "video" /\ call.done) =>
        LinesFollow(call.lines,
                    SplitLines(clean_text_preserving_line_breaks(call.text)))

\* a laid-out line read back as text; a piece of a word that was cut is
\* not that word
LineTokens(line) ==
    [k \in 1..Len(line) |->
        IF line[k].ws THEN SP
        ELSE IF line[k].len = CharLen(line[k].tok) THEN line[k].tok
        ELSE "piece"]

\* ' '.join(lines) of laid-out lines
RECURSIVE JoinPieces(_)
JoinPieces(lines) ==
    IF lines = <<>> THEN <<>>
    ELSE IF Len(lines) = 1 THEN LineTokens(lines[1])
    ELSE LineTokens(lines[1]) \o <<SP>> \o JoinPieces(Tail(lines))

\* greedy: the first word of each following piece did not fit the piece
\* before it
GreedyPieces(pieces, budget) ==
    \A i \in 1..(Len(pieces) - 1) :
        LineChars(pieces[i]) + 1 + pieces[i + 1][1].len > budget

\* the layout emits each logical line as the wrapping rule says: a line of
\* at most 40 characters as itself, a longer one as greedy pieces of at
\* most budget characters that join back to it
RECURSIVE WrappedAsSpecified(_, _, _)
WrappedAsSpecified(laid_out, logical, budget) ==
    IF logical = <<>> THEN laid_out = <<>>
    ELSE IF TextLen(Head(logical)) <= 40
        THEN /\ laid_out # <<>>
             /\ LineTokens(Head(laid_out)) = Head(logical)
             /\ WrappedAsSpecified(Tail(laid_out), Tail(logical), budget)
    ELSE \E k \in 1..Len(laid_out) :
            LET pieces == SubSeq(laid_out, 1, k)
            IN  /\ \A i \in 1..k : pieces[i] # <<>>
                /\ \A i \in 1..k : LineChars(pieces[i]) <= budget
                /\ JoinPieces(pieces) = Head(logical)
                /\ GreedyPieces(pieces, budget)
                /\ WrappedAsSpecified(SubSeq(laid_out, k + 1, Len(laid_out)),
                                      Tail(logical), budget)

\* the logical lines handed to the wrapping step
LogicalLines ==
    IF call.path = "preview"
        THEN SplitLines(clean_text_preserving_line_breaks(call.text))
        ELSE <<VideoNormalize(call.text)>>

\* C20: the wrapping step emits every logical line of at most 40
\* characters unchanged as one line, and wraps every longer line greedily
\* to max(25, floor(0.8 * textAreaWidth / (0.6 * fontSize))) characters:
\* each piece has at most that many characters and the pieces joined by
\* single spaces give back the line's words in order.
C20_WrapRule ==
    (call.fn = "wrap" /\ call.done) =>
        LET floor == (8 * call.canvas) \div (6 * call.font)
            budget == IF floor > 25 THEN floor ELSE 25
        IN  WrappedAsSpecified(call.lines, LogicalLines, budget)


\* C21: the color parsing inlined in the video text layer gives the same
\* RGB triple as parse_color for every color string: each of the eight
\* names, in any letter case, its own value, and every #RRGGBB value its
\* three bytes, each in 0..255.
C21_InlineColorAgrees ==
    (call.fn = "color" /\ call.path = "video" /\ call.done) =>
        LET expected == parse_color(call.text_color)
        IN  /\ call.raised = expected.raised
            /\ ~call.raised =>
                  /\ call.rgb = expected.rgb
                  /\ \A k \in 1..3 : call.rgb[k] \in 0..255
            /\ call.text_color \in { <<"red">>, <<"RED">> }
                  => call.rgb = <<255, 0, 0>>
            /\ WellFormedHex(call.text_color)
                  => call.rgb = [k \in 1..3 |->
                                    16 * HexValue(call.text_color[2 * k])
                                        + HexValue(call.text_color[2 * k + 1])]


\* C22: text layer creation never fails the render: when a step of
\* create_simple_visible_text_clip raises, the text layer is a rectangle
\* 80% of the background wide, 200 high and of the requested duration,
\* and the call goes on to the audio stage, the composite and the encoder.
C22_TextLayerNeverFails ==
    /\ [][\A p \in Procs :
            pc[p] = "text" =>
                /\ pc'[p] = "audio"
                /\ text_clip'[p].kind \in {"image", "color"}
                /\ text_clip'[p].w = (video_clip[p].w * 8) \div 10
                /\ text_clip'[p].duration = req[p].duration
                /\ text_clip'[p].kind = "color" => text_clip'[p].h = 200]_vars
    /\ [](\A p \in Procs :
            text_clip[p].kind = "color" =>
                /\ pc[p] \in {"handler", "done", "responded"}
                      => Len(attempts[p]) >= 1
                /\ final_clip[p] # NoClip =>
                      final_clip[p].duration = req[p].duration
                /\ Len(attempts[p]) >= 1 =>
                      /\ attempts[p][1].w = video_clip[p].w
                      /\ attempts[p][1].h = video_clip[p].h)

\* the text layer fell back to the rectangle and the first attempt still
\* wrote the file
C22_Witness ==
    \E p \in Procs :
        /\ text_clip[p].kind = "color"
        /\ text_clip[p].h = 200
        /\ Len(attempts[p]) = 1
        /\ attempts[p][1].ok
        /\ result[p] = "True"


\* position of a stage in the order of one create_story_video call
StageRank(stage) ==
    CASE stage = "idle" -> 0
      [] stage = "acquire" -> 1
      [] stage = "trim" -> 2
      [] stage = "dimcheck" -> 3
      [] stage = "text" -> 4
      [] stage = "audio" -> 5
      [] stage = "composite" -> 6
      [] stage = "enc1" -> 7
      [] stage = "enc2" -> 8
      [] stage = "enc3" -> 9
      [] stage = "close" -> 10
      [] stage = "cleanup" -> 11
      [] stage = "handler" -> 12
      [] stage = "done" -> 13
      [] OTHER -> 14

C24_CredentialOnlyToProvider ==
    (call.fn = "fetch" /\ call.done /\ call.authorization)
        => call.url.host \in {"pexels.com", "videos.pexels.com"}


\* C25: every media handle opened during create_story_video (background,
\* text layer, audio, composite) is closed by the time it returns, on
\* success and on every failure path, and no handle is closed more than once.
C25_HandlesClosedOnce ==
    \A p \in Procs :
        /\ trace[p].audioCloses <= 1
        /\ Returned(p) =>
              /\ video_clip[p] # NoClip => trace[p].closed >= 1
              /\ text_clip[p] # NoClip => trace[p].closed >= 2
              /\ final_clip[p] # NoClip => trace[p].closed = 3
              /\ trace[p].audio = "ok" =>
                    (trace[p].audioCloses = 1 \/ trace[p].closed >= 1)


\* C26: once attempt 2 has dropped the audio track, attempt 3 writes a clip
\* without audio as well, whether or not attempt 3 downscales.
C26_Attempt3StaysSilent ==
    \A p \in Procs :
        Len(attempts[p]) = 3 =>
            /\ ~attempts[p][2].audio
            /\ ~attempts[p][3].audio


\* C27: when process_pending_poems returns, every processed poem has had
\* exactly one status update, written to its own row of the sheet, wherever
\* the non-pending rows are and even when two pending rows are identical;
\* at most max_poems poems are processed and successful + failed is their
\* number.  (Stated for runs in which no sheet update failed.)
C27_OneUpdateOnOwnRow ==
    (call.fn = "batch" /\ call.pc = "returned"
        /\ \A u \in 1..Len(call.updates) : call.updates[u].wrote) =>
        LET own == PendingRows(call.sheet0)
            n == Len(call.updates)
        IN  /\ n <= call.max_poems
            /\ n <= Len(own)
            /\ call.successful + call.failed = n
            /\ \A k \in 1..n :
                  /\ call.updates[k].poem = k
                  /\ call.updates[k].record = own[k]
                  /\ call.sheet[own[k]].status = call.updates[k].status
            /\ \A r \in 1..Len(call.sheet0) :
                  (\A k \in 1..n : own[k] # r) => call.sheet[r] = call.sheet0[r]


\* C28: get_available_fonts returns at most 15 font paths, none of them
\* twice, with the bundled fonts that exist ahead of every system font,
\* whatever the number of font directories and of files in them.
C28_FontListContract ==
    (call.fn = "fonts" /\ call.pc = "returned") =>
        LET fonts == call.available
        IN  /\ Len(fonts) <= 15
            /\ \A i, j \in 1..Len(fonts) : fonts[i] = fonts[j] => i = j
            /\ \A i, j \in 1..Len(fonts) :
                  (fonts[i][2] = "bundled" /\ fonts[j][2] # "bundled") => i < j


\* C29: a request for a missing file is answered 404; a download that has
\* started (the 200 response was returned) never fails partway because of a
\* second download of the same file or of cleanup_old_temp_files running at
\* the same time: it ends complete or aborted by its client, never with the
\* generator raising; and the file is unlinked at most once.
C29_StartedDownloadCompletes ==
    call.fn = "download" =>
        /\ \A d \in Downloaders :
              /\ call.dl[d].pc # "broken"
              /\ call.dl[d].pc = "complete" => call.dl[d].sent = MaxChunks
        /\ call.unlinks <= 1


\* C30: cleanup_old_temp_files deletes only regular files of the temp
\* folder whose mtime is more than 3600 seconds in the past; recent files
\* (3600 seconds or less) and directories stay; a file whose unlink raises
\* does not keep the later old files from being deleted; the function
\* never raises: when listdir or getmtime raises it returns normally.
C30_CleanupContract ==
    call.fn = "cleanup" =>
        /\ call.stopped => call.pc = "returned"
        /\ \A k \in call.deleted :
              /\ call.folder[k].kind = "file"
              /\ call.folder[k].age > 3600
        /\ \A k \in 1..Len(call.folder) :
              (call.folder[k].kind = "dir" \/ call.folder[k].age <= 3600)
                  => k \notin call.deleted
        /\ (call.pc = "returned" /\ ~call.stopped) =>
              \A k \in 1..Len(call.folder) :
                  (/\ call.folder[k].kind = "file"
                   /\ call.folder[k].age > 3600
                   /\ ~call.folder[k].locked) => k \in call.deleted

\* returned with an old file deleted after an old file that could not be
\* deleted, a file exactly one hour old and a directory left in place
C30_Witness ==
    /\ call.fn = "cleanup"
    /\ call.pc = "returned"
    /\ \E a, b, c \in 1..Len(call.folder) :
          /\ a < b
          /\ a \in call.failed
          /\ b \in call.deleted
          /\ call.folder[c].age = 3600
          /\ call.folder[c].kind = "file"
          /\ c \notin call.deleted

====
